---- MODULE Spec2Model ----
(***************************************************************************)
(* create-restful-swr: the ResourceCacher keeps an SWR cache consistent    *)
(* between a REST collection and its resources.  The model covers the      *)
(* DefaultRestAdapter (src/adapter.ts), the ResourceCacher                 *)
(* (ResourceCacher.ts) and the api objects of the two hooks                *)
(* (createRESTfulSWR.ts).  Every async function is split at its awaits:    *)
(* one action per segment between two suspension points.  A segment that   *)
(* follows `await this.client.x(..)` draws the value the client resolved   *)
(* to; a segment that ends in `await this.mutate(..)` changes the cache    *)
(* when it runs (swr stores non-promise data before mutate suspends).      *)
(* At most two operations are in flight together; the record of a finished *)
(* operation is kept until the next operation starts.                      *)
(*                                                                         *)
(* Spec        operations overlapping freely, every cache write succeeding *)
(* SpecSerial  one operation at a time, with mutate calls that reject and  *)
(*             the passive fetches of the mounted bindings                 *)
(* SpecLive    one operation at a time when every awaited call settles     *)
(* SpecAdapter the adapter functions applied to drawn arguments            *)
(* SpecConcurrent  the operations other than list overlapping, from every  *)
(*             cache a list leaves                                         *)
(* SpecBindings  one operation at a time, the functions that take an id    *)
(*             called with an empty id too                                 *)
(***************************************************************************)
EXTENDS Integers, Sequences, FiniteSets, TLC

\* ------------------------------------------------------------------ bounds
\* operations started in one behaviour
MaxOps == 2
\* the longest collection an adapter function is applied to
MaxLen == 3
\* adapter calls made in a row on the same arguments
KeyCalls == 2

\* ------------------------------------------------------------- JS values
\* Values are tagged so that values of different JS types compare unequal.
Undefined == <<"undefined">>
Null == <<"null">>
Str(s) == <<"string", s>>
Obj(o) == <<"object", o>>
Res(r) == <<"resource", r>>
Col(c) == <<"collection", c>>

\* JS truthiness of a tagged value (undefined, null and "" are falsy; every
\* object and array, the empty array included, is truthy)
Truthy(x) == x # Undefined /\ x # Null /\ x # Str("")

\* ---------------------------------------------------------- data universe
Ids == {"1", "2"}
Vals == {0, 1}
\* the resources the client returns: two versions of "1", one of "2"
Resources == {r \in [id : Ids, v : Vals] : r.id = "1" \/ r.v = 0}
\* list params of a collection binding: none, or one filter object
ListParams == {Undefined, Obj("some")}
\* the params of the collection bindings that are mounted and fetch
\* passively: one binding, without params
MountedParams == {Undefined}
\* what a resource binding can be created with: no id, "", or an id
BindingIds == {Undefined, Str(""), Str("1")}
RemoteErrors == {"E1", "E2"}
\* what a mutate call can reject with
CacheErrors == {"W1"}
\* what client.list can resolve to: the empty collection, one resource, two
\* resources in either order, and a collection with one id twice
ListResults ==
  LET a == [id |-> "1", v |-> 0]
      b == [id |-> "1", v |-> 1]
      c == [id |-> "2", v |-> 0]
  IN {<<>>, <<a>>, <<a, c>>, <<c, b>>, <<a, b>>}
\* what client.remove can resolve to (Promise<void>; the tests resolve null)
RemoveResults == {Undefined, Null}

\* the activations of api functions that can be in flight together
Slots == {1, 2}

\* ---------------------------------------------------- DefaultRestAdapter
cacheKey == "/collection"

id(resource) == resource.id

\* mutant: the key of a resource is built from the whole resource
resourceKey_OfObject(resource) ==
  <<cacheKey, IF resource[1] = "string" THEN Str(resource[2]) ELSE resource>>

resourceKey(resource) ==
  <<cacheKey, Str(IF resource[1] = "string" THEN resource[2] ELSE id(resource[2]))>>

\* mutant: the params are left out of the key
collectionKey_NoParams(params) == <<cacheKey, Undefined>>

collectionKey(params) == <<cacheKey, params>>

all(collection) == collection

\* mutant: a resource that is not in the collection is put first
defaultUpsert_Prepends(resource, collection) ==
  LET isElement(r) == id(r) = id(resource)
      inserted == \A k \in 1..Len(collection) : ~isElement(collection[k])
      updated == [k \in 1..Len(collection) |->
                    IF isElement(collection[k]) THEN resource ELSE collection[k]]
  IN [inserted |-> inserted,
      result |-> IF ~inserted THEN updated ELSE <<resource>> \o collection]

\* mutant: inserted is reported whatever the collection holds
defaultUpsert_AlwaysInserted(resource, collection) ==
  LET isElement(r) == id(r) = id(resource)
      inserted == \A k \in 1..Len(collection) : ~isElement(collection[k])
      updated == [k \in 1..Len(collection) |->
                    IF isElement(collection[k]) THEN resource ELSE collection[k]]
  IN [inserted |-> TRUE,
      result |-> IF ~inserted THEN updated ELSE Append(collection, resource)]

\* mutant: only the first element with the id is replaced
defaultUpsert_ReplacesFirst(resource, collection) ==
  LET isElement(r) == id(r) = id(resource)
      inserted == \A k \in 1..Len(collection) : ~isElement(collection[k])
      updated == [k \in 1..Len(collection) |->
                    IF /\ isElement(collection[k])
                       /\ \A j \in 1..(k - 1) : ~isElement(collection[j])
                    THEN resource ELSE collection[k]]
  IN [inserted |-> inserted,
      result |-> IF ~inserted THEN updated ELSE Append(collection, resource)]

defaultUpsert(resource, collection) ==
  LET isElement(r) == id(r) = id(resource)
      inserted == \A k \in 1..Len(collection) : ~isElement(collection[k])
      updated == [k \in 1..Len(collection) |->
                    IF isElement(collection[k]) THEN resource ELSE collection[k]]
  IN [inserted |-> inserted,
      result |-> IF ~inserted THEN updated ELSE Append(collection, resource)]

\* mutant: removed is reported whatever the collection holds
defaultFilter_AlwaysRemoved(i, collection) ==
  LET isElement(r) == id(r) = i
  IN [removed |-> TRUE,
      result |-> SelectSeq(collection, LAMBDA r : ~isElement(r))]

\* mutant: only the first element with the id is dropped
defaultFilter_DropsFirst(i, collection) ==
  LET isElement(r) == id(r) = i
      first(k) == isElement(collection[k])
                    /\ \A j \in 1..(k - 1) : ~isElement(collection[j])
      kept == {k \in 1..Len(collection) : ~first(k)}
      nth(n) == CHOOSE k \in kept : Cardinality({j \in kept : j < k}) = n - 1
  IN [removed |-> \E k \in 1..Len(collection) : isElement(collection[k]),
      result |-> [n \in 1..Cardinality(kept) |-> collection[nth(n)]]]

defaultFilter(i, collection) ==
  LET isElement(r) == id(r) = i
  IN [removed |-> \E k \in 1..Len(collection) : isElement(collection[k]),
      result |-> SelectSeq(collection, LAMBDA r : ~isElement(r))]

\* mutant: the resource is appended whatever the collection holds
upsert_Appends(resource, collection) == Append(collection, resource)

upsert(resource, collection) == defaultUpsert(resource, collection).result

\* mutant: the first element is dropped whatever its id
remove_DropsHead(i, collection) ==
  IF collection = <<>> THEN collection ELSE Tail(collection)

remove(i, collection) == defaultFilter(i, collection).result

Keys ==
  {collectionKey(p) : p \in ListParams}
    \cup {resourceKey(Str(i)) : i \in Ids \cup {""}}

\* ------------------------------------------------------------------ state
\*   cache    the swr cache: key -> entry, Undefined for no entry
\*   ops      per slot, the operation that last ran in it
\*   started  the number of operations started so far
VARIABLES cache, ops, started

vars == <<cache, ops, started>>

\* a slot with no operation; the fields of an operation:
\*   pc      "idle", "client" (awaiting the client), "mutate" (awaiting a
\*           mutate), "done"
\*   kind    the api function; via: the hook whose api it is
\*   id      the id argument (collection api) or the id of the binding
\*   params  the params of the binding, for list
\*   calls   the remote calls issued, <<method, argument>>
\*   remote  what the client resolved to; raised: what it rejected with
\*   seen    the entry at the collection key when the operation wrote it: the
\*           previous value its updater function was called with
\*   idx     the number of mutate calls issued
\*   writes  the mutate calls issued, <<key, data>>, data = Undefined when
\*           the updater returned undefined
\*   ret     what the api function resolved to; err: what it rejected with
\*   solo    history: no other operation was in flight during this one
\*   stale   history: the ids whose resource entry the operation that ended
\*           before this one started had left behind its collection entry
IdleOp ==
  [pc |-> "idle", kind |-> "none", via |-> "none", id |-> Undefined,
   params |-> Undefined, calls |-> <<>>, remote |-> Undefined, raised |-> "none",
   seen |-> Undefined, idx |-> 0, writes |-> <<>>, ret |-> Undefined,
   err |-> "none", solo |-> TRUE, stale |-> {}]

InFlight(o) == ops[o].pc \notin {"idle", "done"}

\* a new operation takes the first slot with no operation in flight
Free(o) ==
  /\ started < MaxOps
  /\ ~InFlight(o)
  /\ \A q \in Slots : q < o => InFlight(q)

\* the other slots when an operation starts: an operation in flight is no
\* longer alone, a finished one is forgotten
Others(q) == IF InFlight(q) THEN [ops[q] EXCEPT !.solo = FALSE] ELSE IdleOp

\* the operation of slot q has failed at its resource write after it had
\* updated the collection entry, and the resource entry of id i is not the
\* resource it put into the collection
LeftStale(q, i) ==
  /\ ops[q].pc = "done" /\ ops[q].err \in CacheErrors
  /\ ops[q].kind \in {"create", "view", "update", "partial"}
  /\ Len(ops[q].writes) = 1
  /\ ops[q].writes[1][2] # Undefined
  /\ i = id(ops[q].remote[2])
  /\ cache[resourceKey(ops[q].remote)] # ops[q].remote

StaleIds == {i \in Ids : \E q \in Slots : LeftStale(q, i)}

\* the api function was entered and called the client: the operation is
\* suspended at its first await
Begin(o, kind, via, i, params, call) ==
  /\ started' = started + 1
  /\ ops' = [q \in Slots |->
               IF q = o
               THEN [IdleOp EXCEPT !.pc = "client", !.kind = kind, !.via = via,
                                   !.id = i, !.params = params, !.calls = <<call>>,
                                   !.solo = \A r \in Slots : ~InFlight(r),
                                   !.stale = StaleIds]
               ELSE Others(q)]

\* the api function threw before calling the client
Throw(o, kind, via, i, e) ==
  /\ started' = started + 1
  /\ ops' = [q \in Slots |->
               IF q = o
               THEN [IdleOp EXCEPT !.pc = "done", !.kind = kind, !.via = via,
                                   !.id = i, !.err = e,
                                   !.solo = \A r \in Slots : ~InFlight(r)]
               ELSE Others(q)]

\* mutant: an entry that exists is kept
mutate_KeepsExisting(c, key, data) ==
  IF data = Undefined \/ c[key] # Undefined THEN c ELSE [c EXCEPT ![key] = data]

\* swr's scoped mutate(key, data, {revalidate: false}) with data already
\* computed: undefined leaves the entry alone, anything else is stored
mutate(c, key, data) == IF data = Undefined THEN c ELSE [c EXCEPT ![key] = data]

\* mutant: the options swr uses when none are passed
MutatorOptions_Default == [revalidate |-> TRUE]

\* the options the cacher passes with every mutate call
MutatorOptions == [revalidate |-> FALSE]

\* what swr does after a mutate has stored its data: unless revalidate is
\* false the key is revalidated, a further remote call by the key's fetcher
Revalidation(options, key) ==
  IF options.revalidate THEN << <<"revalidate", key>> >> ELSE <<>>

\* `collection && f(collection)` of the updater functions
Guarded(collection, value) == IF Truthy(collection) THEN value ELSE collection

\* mutant: only an undefined id is refused
assertId_Defined(i) == i # Undefined

\* mutant: the id is never checked
assertId_NoCheck(i) == TRUE

assertId(i) == Truthy(i)

Init ==
  /\ cache = [k \in Keys |-> Undefined]
  /\ ops = [o \in Slots |-> IdleOp]
  /\ started = 0

\* ------------------------------------------- createRESTfulSWR: the hooks
\* useSWRCollection(params).api: every function enters the cacher, which
\* runs up to its first await, the client call.  Only list uses the params
\* of the binding.
CollectionList(o, params) ==
  /\ Free(o)
  /\ Begin(o, "list", "collection", Undefined, params, <<"list", params>>)
  /\ UNCHANGED cache

CollectionCreate(o, params) ==
  /\ Free(o)
  /\ Begin(o, "create", "collection", Undefined, Undefined, <<"create", Obj("CP")>>)
  /\ UNCHANGED cache

CollectionView(o, params, i) ==
  /\ Free(o)
  /\ Begin(o, "view", "collection", i, Undefined, <<"view", i>>)
  /\ UNCHANGED cache

CollectionUpdate(o, params, i) ==
  /\ Free(o)
  /\ Begin(o, "update", "collection", i, Undefined, <<"update", i>>)
  /\ UNCHANGED cache

CollectionPartial(o, params, i) ==
  /\ Free(o)
  /\ Begin(o, "partial", "collection", i, Undefined, <<"partial", i>>)
  /\ UNCHANGED cache

CollectionRemove(o, params, i) ==
  /\ Free(o)
  /\ Begin(o, "remove", "collection", i, Undefined, <<"remove", i>>)
  /\ UNCHANGED cache

\* useSWRResource(id).api: create is unbound, the others assert the id
ResourceCreate(o, i) ==
  /\ Free(o)
  /\ Begin(o, "create", "resource", i, Undefined, <<"create", Obj("CP")>>)
  /\ UNCHANGED cache

ResourceBound(o, kind, i) ==
  /\ Free(o)
  /\ IF assertId(i)
     THEN Begin(o, kind, "resource", i, Undefined, <<kind, i>>)
     ELSE Throw(o, kind, "resource", i, "id is undefined")
  /\ UNCHANGED cache

ResourceView(o, i) == ResourceBound(o, "view", i)

ResourceUpdate(o, i) == ResourceBound(o, "update", i)

ResourcePartial(o, i) == ResourceBound(o, "partial", i)

ResourceRemove(o, i) == ResourceBound(o, "remove", i)

\* ------------------------------------------------------------ RestClient
\* what the remote call of an operation of this kind can resolve to
ClientResults(kind) ==
  CASE kind = "list" -> {Col(c) : c \in ListResults}
    [] kind = "remove" -> RemoveResults
    [] OTHER -> {Res(r) : r \in Resources}

\* mutant: the rejection is replaced by an error of the cacher's own
ClientReject_Wraps(o, e) ==
  /\ ops[o].pc = "client"
  /\ ops' = [ops EXCEPT ![o].pc = "done", ![o].raised = e, ![o].err = "E1"]
  /\ UNCHANGED <<cache, started>>

\* the client's promise rejects: the async function ends at its first await
\* and its caller gets the rejection
ClientReject(o, e) ==
  /\ ops[o].pc = "client"
  /\ ops' = [ops EXCEPT ![o].pc = "done", ![o].raised = e, ![o].err = e]
  /\ UNCHANGED <<cache, started>>

\* --------------------------------------------------------- ResourceCacher
\* mutant: the segment calls mutate twice
Segment_Repeats(o, result, key, data) ==
  /\ cache' = mutate(cache, key, data)
  /\ UNCHANGED started
  /\ ops' = [ops EXCEPT ![o].pc = "mutate", ![o].remote = result,
                        ![o].seen = IF ops[o].idx = 0 THEN cache[key] ELSE @,
                        ![o].idx = @ + 1,
                        ![o].writes = Append(Append(@, <<key, data>>), <<key, data>>)]

\* One segment of an async function, ending in `await this.mutate(key, data,
\* {revalidate: false})`; result is the value the client resolved to.
Segment(o, result, key, data) ==
  /\ cache' = mutate(cache, key, data)
  /\ UNCHANGED started
  /\ ops' = [ops EXCEPT ![o].pc = "mutate", ![o].remote = result,
                        ![o].calls = @ \o Revalidation(MutatorOptions, key),
                        ![o].seen = IF ops[o].idx = 0 THEN cache[key] ELSE @,
                        ![o].idx = @ + 1, ![o].writes = Append(@, <<key, data>>)]

\* mutant: the function stays suspended after its last await
Return_Suspended(o) ==
  /\ ops[o].pc = "idle"
  /\ UNCHANGED vars

\* mutant: the function ends without its return statement
Return_Nothing(o) ==
  /\ ops' = [ops EXCEPT ![o].pc = "done"]
  /\ UNCHANGED <<cache, started>>

\* the last segment: `return` of the value the client resolved to
Return(o) ==
  /\ ops' = [ops EXCEPT ![o].pc = "done", ![o].ret = ops[o].remote]
  /\ UNCHANGED <<cache, started>>

\* mutant: the loop stops one resource early
listResources_SkipsLast(o) ==
  LET collection == ops[o].remote[2]
      resource == all(collection)[ops[o].idx]
  IN /\ ops[o].kind = "list"
     /\ \/ /\ ops[o].pc = "client"
           /\ \E result \in ClientResults("list") :
                Segment(o, result, collectionKey(ops[o].params), result)
        \/ /\ ops[o].pc = "mutate"
           /\ ops[o].idx < Len(all(collection))
           /\ Segment(o, ops[o].remote, resourceKey(Res(resource)), Res(resource))
        \/ /\ ops[o].pc = "mutate"
           /\ ops[o].idx >= Len(all(collection))
           /\ Return(o)

\* mutant: the collection is written under the key without params
listResources_Unparameterized(o) ==
  LET collection == ops[o].remote[2]
      resource == all(collection)[ops[o].idx]
  IN /\ ops[o].kind = "list"
     /\ \/ /\ ops[o].pc = "client"
           /\ \E result \in ClientResults("list") :
                Segment(o, result, collectionKey(Undefined), result)
        \/ /\ ops[o].pc = "mutate"
           /\ ops[o].idx <= Len(all(collection))
           /\ Segment(o, ops[o].remote, resourceKey(Res(resource)), Res(resource))
        \/ /\ ops[o].pc = "mutate"
           /\ ops[o].idx > Len(all(collection))
           /\ Return(o)

listResources(o) ==
  LET collection == ops[o].remote[2]
      resource == all(collection)[ops[o].idx]
  IN /\ ops[o].kind = "list"
     /\ \/ /\ ops[o].pc = "client"
           /\ \E result \in ClientResults("list") :
                Segment(o, result, collectionKey(ops[o].params), result)
        \/ /\ ops[o].pc = "mutate"
           /\ ops[o].idx <= Len(all(collection))
           /\ Segment(o, ops[o].remote, resourceKey(Res(resource)), Res(resource))
        \/ /\ ops[o].pc = "mutate"
           /\ ops[o].idx > Len(all(collection))
           /\ Return(o)

\* mutant: the updater returns the collection it was given
upsertUpdater_DropsResource(resource, collection) ==
  Guarded(collection, collection)

\* mutant: the updater appends without looking for the id
upsertUpdater_AlwaysAppends(resource, collection) ==
  Guarded(collection, Col(Append(collection[2], resource[2])))

\* mutant: the updater makes a collection when there is none
upsertUpdater_Fabricates(resource, collection) ==
  IF Truthy(collection) THEN Col(upsert(resource[2], collection[2]))
  ELSE Col(<<resource[2]>>)

\* mutant: the updater builds the collection from the resource alone
upsertUpdater_Overwrites(resource, collection) ==
  Guarded(collection, Col(<<resource[2]>>))

\* the updater function of create, view, update and partial
upsertUpdater(resource, collection) ==
  Guarded(collection, Col(upsert(resource[2], collection[2])))

\* mutant: the filter keeps the element it should drop
removeUpdater_Inverted(i, collection) ==
  Guarded(collection, Col(SelectSeq(collection[2], LAMBDA r : id(r) = i[2])))

\* mutant: the updater returns the collection it was given
removeUpdater_KeepsAll(i, collection) ==
  Guarded(collection, collection)

\* the updater function of remove
removeUpdater(i, collection) ==
  Guarded(collection, Col(remove(i[2], collection[2])))

\* mutant: view, update and partial write the key of the id they were given
upsertResource_KeyOfArgument(o) ==
  LET key == IF ops[o].kind = "create" THEN resourceKey(ops[o].remote)
             ELSE resourceKey(ops[o].id)
  IN \/ /\ ops[o].pc = "client"
        /\ \E resource \in ClientResults(ops[o].kind) :
             Segment(o, resource, collectionKey(Undefined),
                     upsertUpdater(resource, cache[collectionKey(Undefined)]))
     \/ /\ ops[o].pc = "mutate"
        /\ ops[o].idx = 1
        /\ Segment(o, ops[o].remote, key, ops[o].remote)
     \/ /\ ops[o].pc = "mutate"
        /\ ops[o].idx = 2
        /\ Return(o)

\* mutant: the resource entry is written before the collection entry
upsertResource_ResourceFirst(o) ==
  \/ /\ ops[o].pc = "client"
     /\ \E resource \in ClientResults(ops[o].kind) :
          Segment(o, resource, resourceKey(resource), resource)
  \/ /\ ops[o].pc = "mutate"
     /\ ops[o].idx = 1
     /\ Segment(o, ops[o].remote, collectionKey(Undefined),
                upsertUpdater(ops[o].remote, cache[collectionKey(Undefined)]))
  \/ /\ ops[o].pc = "mutate"
     /\ ops[o].idx = 2
     /\ Return(o)

\* mutant: the collection entry of the filtered key is updated
upsertResource_FilteredKey(o) ==
  \/ /\ ops[o].pc = "client"
     /\ \E resource \in ClientResults(ops[o].kind) :
          Segment(o, resource, collectionKey(Obj("some")),
                  upsertUpdater(resource, cache[collectionKey(Obj("some"))]))
  \/ /\ ops[o].pc = "mutate"
     /\ ops[o].idx = 1
     /\ Segment(o, ops[o].remote, resourceKey(ops[o].remote), ops[o].remote)
  \/ /\ ops[o].pc = "mutate"
     /\ ops[o].idx = 2
     /\ Return(o)

\* createResource, viewResource, updateResource and partialResource have the
\* same three segments after the client call
upsertResource(o) ==
  \/ /\ ops[o].pc = "client"
     /\ \E resource \in ClientResults(ops[o].kind) :
          Segment(o, resource, collectionKey(Undefined),
                  upsertUpdater(resource, cache[collectionKey(Undefined)]))
  \/ /\ ops[o].pc = "mutate"
     /\ ops[o].idx = 1
     /\ Segment(o, ops[o].remote, resourceKey(ops[o].remote), ops[o].remote)
  \/ /\ ops[o].pc = "mutate"
     /\ ops[o].idx = 2
     /\ Return(o)

createResource(o) == ops[o].kind = "create" /\ upsertResource(o)

\* mutant: view leaves the resource entry alone
viewResource_NoResourceWrite(o) ==
  /\ ops[o].kind = "view"
  /\ \/ /\ ops[o].pc = "client"
        /\ \E resource \in ClientResults(ops[o].kind) :
             Segment(o, resource, collectionKey(Undefined),
                     upsertUpdater(resource, cache[collectionKey(Undefined)]))
     \/ /\ ops[o].pc = "mutate"
        /\ ops[o].idx = 1
        /\ Segment(o, ops[o].remote, resourceKey(ops[o].remote), Undefined)
     \/ /\ ops[o].pc = "mutate"
        /\ ops[o].idx = 2
        /\ Return(o)

viewResource(o) == ops[o].kind = "view" /\ upsertResource(o)

updateResource(o) == ops[o].kind = "update" /\ upsertResource(o)

partialResource(o) == ops[o].kind = "partial" /\ upsertResource(o)

\* mutant: the resource entry is deleted
removeResource_Deletes(o) ==
  /\ ops[o].kind = "remove"
  /\ \/ /\ ops[o].pc = "client"
        /\ \E response \in ClientResults("remove") :
             Segment(o, response, collectionKey(Undefined),
                     removeUpdater(ops[o].id, cache[collectionKey(Undefined)]))
     \/ /\ ops[o].pc = "mutate"
        /\ ops[o].idx = 1
        /\ cache' = [cache EXCEPT ![resourceKey(ops[o].id)] = Undefined]
        /\ UNCHANGED started
        /\ ops' = [ops EXCEPT ![o].idx = @ + 1,
                              ![o].writes = Append(@, <<resourceKey(ops[o].id), Null>>)]
     \/ /\ ops[o].pc = "mutate"
        /\ ops[o].idx = 2
        /\ Return(o)

removeResource(o) ==
  /\ ops[o].kind = "remove"
  /\ \/ /\ ops[o].pc = "client"
        /\ \E response \in ClientResults("remove") :
             Segment(o, response, collectionKey(Undefined),
                     removeUpdater(ops[o].id, cache[collectionKey(Undefined)]))
     \/ /\ ops[o].pc = "mutate"
        /\ ops[o].idx = 1
        /\ Segment(o, ops[o].remote, resourceKey(ops[o].id), Null)
     \/ /\ ops[o].pc = "mutate"
        /\ ops[o].idx = 2
        /\ Return(o)

\* the number of mutate calls the operation makes when none rejects
MutateCalls(o) ==
  IF ops[o].kind = "list" THEN 1 + Len(all(ops[o].remote[2])) ELSE 2

\* mutant: the failed resource write puts the collection entry back
MutateReject_RollsBack(o, e) ==
  \/ /\ ops[o].pc = "client"
     /\ \E result \in ClientResults(ops[o].kind) :
          ops' = [ops EXCEPT ![o].pc = "done", ![o].remote = result, ![o].err = e]
     /\ UNCHANGED <<cache, started>>
  \/ /\ ops[o].pc = "mutate"
     /\ ops[o].idx < MutateCalls(o)
     /\ ops' = [ops EXCEPT ![o].pc = "done", ![o].err = e]
     /\ cache' = [cache EXCEPT ![ops[o].writes[1][1]] = ops[o].seen]
     /\ UNCHANGED started

\* mutant: the rejection is caught and the function goes on
MutateReject_Continues(o, e) ==
  /\ \/ /\ ops[o].pc = "client"
        /\ \E result \in ClientResults(ops[o].kind) :
             ops' = [ops EXCEPT ![o].pc = "done", ![o].remote = result, ![o].err = e]
     \/ /\ ops[o].pc = "mutate"
        /\ ops[o].idx < MutateCalls(o)
        /\ ops' = [ops EXCEPT ![o].idx = @ + 1, ![o].err = e,
                              ![o].writes = Append(@, <<collectionKey(Undefined), Undefined>>)]
  /\ UNCHANGED <<cache, started>>

\* `await this.mutate(..)` rejects: the cache write fails, nothing is stored,
\* the async function ends at this await and its caller gets the rejection.
\* When it is the first mutate call the client has just resolved.
MutateReject(o, e) ==
  /\ \/ /\ ops[o].pc = "client"
        /\ \E result \in ClientResults(ops[o].kind) :
             ops' = [ops EXCEPT ![o].pc = "done", ![o].remote = result, ![o].err = e]
     \/ /\ ops[o].pc = "mutate"
        /\ ops[o].idx < MutateCalls(o)
        /\ ops' = [ops EXCEPT ![o].pc = "done", ![o].err = e]
  /\ UNCHANGED <<cache, started>>

\* no operation is in flight
Idle == \A q \in Slots : ~InFlight(q)

\* mutant: every collection binding subscribes to the key without params
useSWRCollection_NoParams(params) == collectionKey(Undefined)

\* the key the response of useSWRCollection(params) subscribes to
useSWRCollection(params) == collectionKey(params)

\* mutant: a resource binding subscribes to the key of whatever id it has
useSWRResource_AnyId(i) == IF i = Undefined THEN resourceKey(Str("")) ELSE resourceKey(i)

\* the key the response of useSWRResource(id) subscribes to: Null, no key,
\* when the id is undefined or empty
useSWRResource(i) == IF Truthy(i) THEN resourceKey(i) ELSE Null

\* mutant: what the fetcher resolved to is stored under the key without
\* params as well
Fetched_AlsoUnparameterized(via, i, params, key, call, data) ==
  /\ Idle
  /\ cache' = IF key = Null THEN cache
              ELSE [cache EXCEPT ![key] = data, ![collectionKey(Undefined)] = data]
  /\ ops' = [q \in Slots |->
               IF q = 1
               THEN [IdleOp EXCEPT !.pc = "done", !.kind = "fetch", !.via = via,
                                   !.id = i, !.params = params,
                                   !.calls = IF key = Null THEN <<>> ELSE <<call>>,
                                   !.writes = IF key = Null THEN <<>>
                                              ELSE << <<key, data>> >>,
                                   !.ret = IF key = Null THEN Undefined ELSE data]
               ELSE IdleOp]
  /\ UNCHANGED started

\* The passive fetch of a binding, while no operation is in flight: swr
\* calls the fetcher of the key the hook subscribed to and stores what it
\* resolves to under that key, and under no other key; with no key it calls
\* nothing and the response settles without data.  The record of the last
\* operation is forgotten; slot 1 keeps the record of the fetch: calls the
\* remote calls of the fetcher, writes what was stored, ret the data of the
\* response.
Fetched(via, i, params, key, call, data) ==
  /\ Idle
  /\ cache' = IF key = Null THEN cache ELSE [cache EXCEPT ![key] = data]
  /\ ops' = [q \in Slots |->
               IF q = 1
               THEN [IdleOp EXCEPT !.pc = "done", !.kind = "fetch", !.via = via,
                                   !.id = i, !.params = params,
                                   !.calls = IF key = Null THEN <<>> ELSE <<call>>,
                                   !.writes = IF key = Null THEN <<>>
                                              ELSE << <<key, data>> >>,
                                   !.ret = IF key = Null THEN Undefined ELSE data]
               ELSE IdleOp]
  /\ UNCHANGED started

\* useSWR(adapter.collectionKey(params), fetcher: () => client.list(params))
FetchCollection(params, collection) ==
  Fetched("collection", Undefined, params, useSWRCollection(params),
          <<"list", params>>, collection)

\* useSWR(id ? adapter.resourceKey(id) : null, fetcher: () => client.view(id))
FetchResource(i, resource) ==
  Fetched("resource", i, Undefined, useSWRResource(i), <<"view", i>>, resource)

\* The fetcher of a binding rejects: swr stores nothing and the response
\* exposes the error; the record of the fetch has it in raised and err.
FetchRejected(via, i, params, key, call, e) ==
  /\ Idle
  /\ key # Null
  /\ ops' = [q \in Slots |->
               IF q = 1
               THEN [IdleOp EXCEPT !.pc = "done", !.kind = "fetch", !.via = via,
                                   !.id = i, !.params = params, !.calls = <<call>>,
                                   !.raised = e, !.err = e]
               ELSE IdleOp]
  /\ UNCHANGED <<cache, started>>

FetchCollectionReject(params, e) ==
  FetchRejected("collection", Undefined, params, useSWRCollection(params),
                <<"list", params>>, e)

FetchResourceReject(i, e) ==
  FetchRejected("resource", i, Undefined, useSWRResource(i), <<"view", i>>, e)

Next ==
  \/ \E o \in Slots, params \in ListParams : CollectionList(o, params)
  \/ \E o \in Slots, params \in ListParams : CollectionCreate(o, params)
  \/ \E o \in Slots, params \in ListParams, i \in Ids : CollectionView(o, params, Str(i))
  \/ \E o \in Slots, params \in ListParams, i \in Ids : CollectionUpdate(o, params, Str(i))
  \/ \E o \in Slots, params \in ListParams, i \in Ids : CollectionPartial(o, params, Str(i))
  \/ \E o \in Slots, params \in ListParams, i \in Ids : CollectionRemove(o, params, Str(i))
  \/ \E o \in Slots, i \in BindingIds : ResourceCreate(o, i)
  \/ \E o \in Slots, i \in BindingIds : ResourceView(o, i)
  \/ \E o \in Slots, i \in BindingIds : ResourceUpdate(o, i)
  \/ \E o \in Slots, i \in BindingIds : ResourcePartial(o, i)
  \/ \E o \in Slots, i \in BindingIds : ResourceRemove(o, i)
  \/ \E o \in Slots, e \in RemoteErrors : ClientReject(o, e)
  \/ \E o \in Slots : listResources(o)
  \/ \E o \in Slots : createResource(o)
  \/ \E o \in Slots : viewResource(o)
  \/ \E o \in Slots : updateResource(o)
  \/ \E o \in Slots : partialResource(o)
  \/ \E o \in Slots : removeResource(o)

Spec == Init /\ [][Next]_vars

\* ------------------------------------------------- one operation at a time
\* The behaviours in which the caller awaits every api call before the next
\* one, a mutate call can reject, and the bindings fetch passively while no
\* operation is in flight.
NextSerial ==
  \/ Idle /\ \E o \in Slots, params \in ListParams : CollectionList(o, params)
  \/ Idle /\ \E o \in Slots, params \in ListParams : CollectionCreate(o, params)
  \/ Idle /\ \E o \in Slots, params \in ListParams, i \in Ids :
               CollectionView(o, params, Str(i))
  \/ Idle /\ \E o \in Slots, params \in ListParams, i \in Ids :
               CollectionUpdate(o, params, Str(i))
  \/ Idle /\ \E o \in Slots, params \in ListParams, i \in Ids :
               CollectionPartial(o, params, Str(i))
  \/ Idle /\ \E o \in Slots, params \in ListParams, i \in Ids :
               CollectionRemove(o, params, Str(i))
  \/ Idle /\ \E o \in Slots, i \in BindingIds : ResourceCreate(o, i)
  \/ Idle /\ \E o \in Slots, i \in BindingIds : ResourceView(o, i)
  \/ Idle /\ \E o \in Slots, i \in BindingIds : ResourceUpdate(o, i)
  \/ Idle /\ \E o \in Slots, i \in BindingIds : ResourcePartial(o, i)
  \/ Idle /\ \E o \in Slots, i \in BindingIds : ResourceRemove(o, i)
  \/ Idle /\ \E params \in MountedParams, collection \in ClientResults("list") :
               FetchCollection(params, collection)
  \/ Idle /\ \E i \in BindingIds, resource \in ClientResults("view") :
               FetchResource(i, resource)
  \/ \E o \in Slots, e \in RemoteErrors : ClientReject(o, e)
  \/ \E o \in Slots, e \in CacheErrors : MutateReject(o, e)
  \/ \E o \in Slots : listResources(o)
  \/ \E o \in Slots : createResource(o)
  \/ \E o \in Slots : viewResource(o)
  \/ \E o \in Slots : updateResource(o)
  \/ \E o \in Slots : partialResource(o)
  \/ \E o \in Slots : removeResource(o)

SpecSerial == Init /\ [][NextSerial]_vars

\* ------------------------------------------- the ids given to the bindings
\* the ids the view, update, partial and remove of a collection binding are
\* called with: the empty string and an id
GivenIds == {Str(""), Str("1")}

\* One operation at a time: list of a collection binding, the functions that
\* take an id of both bindings, and the passive fetches of both bindings,
\* which resolve or reject.
NextBindings ==
  \/ Idle /\ \E o \in Slots, params \in ListParams : CollectionList(o, params)
  \/ Idle /\ \E o \in Slots, params \in ListParams, i \in GivenIds :
               CollectionView(o, params, i)
  \/ Idle /\ \E o \in Slots, params \in ListParams, i \in GivenIds :
               CollectionUpdate(o, params, i)
  \/ Idle /\ \E o \in Slots, params \in ListParams, i \in GivenIds :
               CollectionPartial(o, params, i)
  \/ Idle /\ \E o \in Slots, params \in ListParams, i \in GivenIds :
               CollectionRemove(o, params, i)
  \/ Idle /\ \E o \in Slots, i \in BindingIds : ResourceView(o, i)
  \/ Idle /\ \E o \in Slots, i \in BindingIds : ResourceUpdate(o, i)
  \/ Idle /\ \E o \in Slots, i \in BindingIds : ResourcePartial(o, i)
  \/ Idle /\ \E o \in Slots, i \in BindingIds : ResourceRemove(o, i)
  \/ Idle /\ \E i \in BindingIds, resource \in ClientResults("view") :
               FetchResource(i, resource)
  \/ Idle /\ \E params \in ListParams, collection \in ClientResults("list") :
               FetchCollection(params, collection)
  \/ Idle /\ \E i \in BindingIds, e \in RemoteErrors : FetchResourceReject(i, e)
  \/ Idle /\ \E params \in ListParams, e \in RemoteErrors :
               FetchCollectionReject(params, e)
  \/ \E o \in Slots, e \in RemoteErrors : ClientReject(o, e)
  \/ \E o \in Slots : listResources(o)
  \/ \E o \in Slots : viewResource(o)
  \/ \E o \in Slots : updateResource(o)
  \/ \E o \in Slots : partialResource(o)
  \/ \E o \in Slots : removeResource(o)

SpecBindings == Init /\ [][NextBindings]_vars

\* ------------------------------------------------ every await settles
\* The step of the operation of slot o after its await: the awaited client
\* call or mutate call has settled and the async function runs to its next
\* await, its return or its rejection.
Continue(o) ==
  \/ \E e \in RemoteErrors : ClientReject(o, e)
  \/ \E e \in CacheErrors : MutateReject(o, e)
  \/ listResources(o)
  \/ createResource(o)
  \/ viewResource(o)
  \/ updateResource(o)
  \/ partialResource(o)
  \/ removeResource(o)

\* The api of a collection binding, one operation at a time, with client
\* calls and mutate calls that reject.
NextLive ==
  \/ Idle /\ \E o \in Slots, params \in ListParams : CollectionList(o, params)
  \/ Idle /\ \E o \in Slots, params \in ListParams : CollectionCreate(o, params)
  \/ Idle /\ \E o \in Slots, params \in ListParams, i \in Ids :
               CollectionView(o, params, Str(i))
  \/ Idle /\ \E o \in Slots, params \in ListParams, i \in Ids :
               CollectionUpdate(o, params, Str(i))
  \/ Idle /\ \E o \in Slots, params \in ListParams, i \in Ids :
               CollectionPartial(o, params, Str(i))
  \/ Idle /\ \E o \in Slots, params \in ListParams, i \in Ids :
               CollectionRemove(o, params, Str(i))
  \/ \E o \in Slots, e \in RemoteErrors : ClientReject(o, e)
  \/ \E o \in Slots, e \in CacheErrors : MutateReject(o, e)
  \/ \E o \in Slots : listResources(o)
  \/ \E o \in Slots : createResource(o)
  \/ \E o \in Slots : viewResource(o)
  \/ \E o \in Slots : updateResource(o)
  \/ \E o \in Slots : partialResource(o)
  \/ \E o \in Slots : removeResource(o)

\* Every remote call and every mutate call settles: a settled promise
\* resumes the function awaiting it, so an operation that can continue does
\* not wait forever.
SpecLive == Init /\ [][NextLive]_vars /\ \A o \in Slots : WF_vars(Continue(o))

\* ------------------------------------------------ the adapter on its own
\* The functions of the DefaultRestAdapter applied to every resource, id and
\* collection of up to MaxLen resources.  The arguments are drawn in the
\* initial state and kept in the record of slot 1: remote is the resource,
\* id the id, seen the collection; a call leaves its result in ret.
Collections == UNION {[1..n -> Resources] : n \in 0..MaxLen}

InitAdapter ==
  /\ cache = [k \in Keys |-> Undefined]
  /\ started = 0
  /\ \E resource \in Resources, i \in Ids, collection \in Collections :
       ops = [o \in Slots |->
                IF o = 1
                THEN [IdleOp EXCEPT !.via = "adapter", !.remote = Res(resource),
                                    !.id = Str(i), !.seen = Col(collection)]
                ELSE IdleOp]

\* mutant: the resource is pushed onto the array passed as collection
argumentAfterUpsert_Pushed(resource, collection) ==
  IF defaultUpsert(resource, collection).inserted
  THEN Append(collection, resource)
  ELSE collection

\* The array passed as collection, as its holder finds it once the call has
\* returned: map and the spread build a new array from their source
argumentAfterUpsert(resource, collection) == collection

\* filter builds a new array from its source
argumentAfterRemove(i, collection) == collection

\* A call of all, upsert or remove on the array in seen, up to KeyCalls in a
\* row on the same array: ret is the array returned, seen the array passed
\* as it is after the call, and calls logs <<array before, array after>>
CallOn(fn, result, after) ==
  /\ \/ ops[1].pc = "idle"
     \/ ops[1].kind \in {"all", "upsert", "remove"} /\ Len(ops[1].calls) < KeyCalls
  /\ ops' = [ops EXCEPT ![1].pc = "done", ![1].kind = fn,
                        ![1].ret = Col(result), ![1].seen = Col(after),
                        ![1].calls = Append(@, <<ops[1].seen, Col(after)>>)]
  /\ UNCHANGED <<cache, started>>

\* adapter.all(collection)
CallAll == CallOn("all", all(ops[1].seen[2]), ops[1].seen[2])

\* adapter.upsert(resource, collection)
CallUpsert ==
  CallOn("upsert", upsert(ops[1].remote[2], ops[1].seen[2]),
         argumentAfterUpsert(ops[1].remote[2], ops[1].seen[2]))

\* adapter.remove(id, collection)
CallRemove ==
  CallOn("remove", remove(ops[1].id[2], ops[1].seen[2]),
         argumentAfterRemove(ops[1].id[2], ops[1].seen[2]))

\* defaultUpsert(adapter, resource, collection): ret is the object returned
CallDefaultUpsert ==
  /\ ops[1].pc = "idle"
  /\ ops' = [ops EXCEPT ![1].pc = "done", ![1].kind = "defaultUpsert",
                        ![1].ret = Obj(defaultUpsert(ops[1].remote[2], ops[1].seen[2]))]
  /\ UNCHANGED <<cache, started>>

\* defaultFilter(adapter, id, collection): ret is the object returned
CallDefaultFilter ==
  /\ ops[1].pc = "idle"
  /\ ops' = [ops EXCEPT ![1].pc = "done", ![1].kind = "defaultFilter",
                        ![1].ret = Obj(defaultFilter(ops[1].id[2], ops[1].seen[2]))]
  /\ UNCHANGED <<cache, started>>

\* the params collectionKey is applied to: none, two filter objects, null
\* and a string
KeyParams == ListParams \cup {Obj("other"), Null, Str("1")}

\* the key functions are called up to KeyCalls times in a row: resourceKey
\* with the resource or the id drawn at the start, collectionKey with params
\* of the call's choice; calls logs <<argument, key>>

CallKey(fn, argument, key) ==
  /\ \/ ops[1].pc = "idle"
     \/ ops[1].kind = fn /\ Len(ops[1].calls) < KeyCalls
  /\ ops' = [ops EXCEPT ![1].pc = "done", ![1].kind = fn,
                        ![1].calls = Append(@, <<argument, key>>)]
  /\ UNCHANGED <<cache, started>>

\* adapter.resourceKey(resource | id)
CallResourceKey(resource) == CallKey("resourceKey", resource, resourceKey(resource))

\* adapter.collectionKey(params), adapter.collectionKey()
CallCollectionKey(params) == CallKey("collectionKey", params, collectionKey(params))

\* A second call of upsert or remove, on the array the first call returned:
\* kind names the two calls, calls logs <<array passed, array returned>> of
\* the second call, ret is the array returned
CallThen(fn, result) ==
  /\ ops[1].pc = "done"
  /\ ops[1].kind \in {"upsert", "remove"} /\ Len(ops[1].calls) = 1
  /\ ops' = [ops EXCEPT ![1].kind = IF ops[1].kind = "upsert"
                                    THEN IF fn = "upsert" THEN "upsert, upsert"
                                         ELSE "upsert, remove"
                                    ELSE IF fn = "upsert" THEN "remove, upsert"
                                         ELSE "remove, remove",
                        ![1].ret = Col(result),
                        ![1].calls = Append(@, <<ops[1].ret, Col(result)>>)]
  /\ UNCHANGED <<cache, started>>

\* adapter.upsert(resource, adapter.upsert(..) | adapter.remove(..))
CallThenUpsert == CallThen("upsert", upsert(ops[1].remote[2], ops[1].ret[2]))

\* adapter.remove(id, adapter.upsert(..) | adapter.remove(..))
CallThenRemove == CallThen("remove", remove(ops[1].id[2], ops[1].ret[2]))

\* adapter.collectionKey(params) and adapter.resourceKey(id) on the same
\* adapter: calls logs the two keys
CallKeys(params) ==
  /\ ops[1].pc = "idle"
  /\ ops' = [ops EXCEPT ![1].pc = "done", ![1].kind = "keys",
                        ![1].calls = << <<params, collectionKey(params)>>,
                                        <<ops[1].id, resourceKey(ops[1].id)>> >>]
  /\ UNCHANGED <<cache, started>>

NextAdapter ==
  \/ CallAll
  \/ CallUpsert
  \/ CallRemove
  \/ CallDefaultUpsert
  \/ CallDefaultFilter
  \/ \E resource \in {ops[1].remote, ops[1].id} : CallResourceKey(resource)
  \/ \E params \in KeyParams : CallCollectionKey(params)
  \/ \E params \in KeyParams : CallKeys(params)
  \/ CallThenUpsert
  \/ CallThenRemove

SpecAdapter == InitAdapter /\ [][NextAdapter]_vars

\* ----------------------------------------------------------- vocabulary
UpsertKinds == {"create", "view", "update", "partial"}

\* the operation of slot o succeeded
Ok(o) == ops[o].pc = "done" /\ ops[o].err = "none"

\* the operation of slot o succeeded and ran with no other operation in
\* flight; its record is kept until the next operation starts, so the cache
\* is as the operation left it
Settled(o) ==
  /\ Ok(o)
  /\ ops[o].solo
  /\ \A q \in Slots : ~InFlight(q)

\* the last element of a collection with the id i
lastWithId(collection, i) ==
  collection[CHOOSE k \in 1..Len(collection) :
               /\ collection[k].id = i
               /\ \A j \in (k + 1)..Len(collection) : collection[j].id # i]

\* ------------------------------------------------------------------ claims
\* C1 (as claimed): after a list that ran alone, the entry at
\* collectionKey(params) is the collection the client returned and, for every
\* resource of the collection, the entry at its resourceKey is that resource.
C1_AsClaimed ==
  \A o \in Slots :
    Settled(o) /\ ops[o].kind = "list" =>
      LET collection == ops[o].remote[2]
      IN /\ cache[collectionKey(ops[o].params)] = Col(collection)
         /\ \A k \in 1..Len(collection) :
              cache[resourceKey(Res(collection[k]))] = Res(collection[k])

\* C1 (amended): after a list that ran alone, the entry at
\* collectionKey(params) is the collection the client returned and, for every
\* resource of the collection, the entry at its resourceKey is the last
\* resource of the collection with that id: the resource itself when no later
\* element shares its id.
C1_ListThenCache ==
  \A o \in Slots :
    Settled(o) /\ ops[o].kind = "list" =>
      LET collection == ops[o].remote[2]
      IN /\ cache[collectionKey(ops[o].params)] = Col(collection)
         /\ \A k \in 1..Len(collection) :
              /\ cache[resourceKey(Res(collection[k]))]
                   = Res(lastWithId(collection, collection[k].id))
              /\ (\A j \in (k + 1)..Len(collection) :
                     collection[j].id # collection[k].id)
                   => cache[resourceKey(Res(collection[k]))] = Res(collection[k])

\* a list with params returned two resources with the same id and different
\* content, and its propagation is complete
C1_Witness ==
  \E o \in Slots :
    /\ Settled(o) /\ ops[o].kind = "list" /\ ops[o].params # Undefined
    /\ Len(ops[o].remote[2]) = 2
    /\ ops[o].remote[2][1].id = ops[o].remote[2][2].id
    /\ ops[o].remote[2][1] # ops[o].remote[2][2]

\* the two mutate calls of create, view, update and partial when the updater
\* saw the collection `seen`
UpsertWrites(o) ==
  << <<collectionKey(Undefined),
       Col(upsert(ops[o].remote[2], ops[o].seen[2]))>>,
     <<resourceKey(ops[o].remote), ops[o].remote>> >>

\* C2: a create that succeeds while a collection entry C is at
\* collectionKey() writes upsert(resource, C) to that key and the resource to
\* resourceKey(resource); when it ran alone these are the entries afterwards;
\* with C empty the collection entry is the one-element collection of the
\* created resource.
C2_CreateUpserts ==
  \A o \in Slots :
    Ok(o) /\ ops[o].kind = "create" /\ ops[o].seen # Undefined =>
      /\ ops[o].writes = UpsertWrites(o)
      /\ ops[o].seen = Col(<<>>) => ops[o].writes[1][2] = Col(<<ops[o].remote[2]>>)
      /\ Settled(o) =>
           /\ cache[collectionKey(Undefined)]
                = Col(upsert(ops[o].remote[2], ops[o].seen[2]))
           /\ cache[resourceKey(ops[o].remote)] = ops[o].remote
           /\ ops[o].seen = Col(<<>>) =>
                cache[collectionKey(Undefined)] = Col(<<ops[o].remote[2]>>)

\* a create ran alone on the empty collection, and the cache holds the
\* one-element collection and the resource
C2_Witness ==
  \E o \in Slots :
    /\ Settled(o) /\ ops[o].kind = "create" /\ ops[o].seen = Col(<<>>)
    /\ cache[collectionKey(Undefined)] = Col(<<ops[o].remote[2]>>)
    /\ cache[resourceKey(ops[o].remote)] = ops[o].remote

\* C3: with no entry at collectionKey(), create, view, update, partial and
\* remove write nothing to that key (the updater returns undefined) and still
\* write the resource entry: the resource, or null for remove; when the
\* operation ran alone the collection entry is still absent afterwards.
C3_NoFabricatedCollection ==
  \A o \in Slots :
    Ok(o) /\ ops[o].kind \in UpsertKinds \cup {"remove"} /\ ops[o].seen = Undefined =>
      LET key == IF ops[o].kind = "remove" THEN resourceKey(ops[o].id)
                 ELSE resourceKey(ops[o].remote)
          entry == IF ops[o].kind = "remove" THEN Null ELSE ops[o].remote
      IN /\ ops[o].writes = << <<collectionKey(Undefined), Undefined>>, <<key, entry>> >>
         /\ Settled(o) =>
              /\ cache[collectionKey(Undefined)] = Undefined
              /\ cache[key] = entry

\* a remove ran alone with no collection entry, after an upserting operation
\* for the other id had cached its resource: still no collection entry, the
\* resource is cached and the removed id is tombstoned
C3_Witness ==
  /\ cache[collectionKey(Undefined)] = Undefined
  /\ cache[collectionKey(Obj("some"))] = Undefined
  /\ \E o \in Slots, i \in Ids :
       /\ Settled(o) /\ ops[o].kind = "remove" /\ ops[o].seen = Undefined
       /\ i # ops[o].id[2]
       /\ cache[resourceKey(Str(i))] \in {Res(r) : r \in Resources}
       /\ cache[resourceKey(ops[o].id)] = Null

\* C4: view, update and partial propagate as create does: with a collection
\* entry C at collectionKey() they write upsert(resource, C) to it (every
\* element with the id replaced, the resource appended when there is none)
\* and the resource to resourceKey(resource); when the operation ran alone
\* these are the entries afterwards.
C4_ViewUpdatePartialUpsert ==
  \A o \in Slots :
    Ok(o) /\ ops[o].kind \in {"view", "update", "partial"} /\ ops[o].seen # Undefined =>
      LET C == ops[o].seen[2]
          resource == ops[o].remote[2]
          result == ops[o].writes[1][2][2]
      IN /\ ops[o].writes = UpsertWrites(o)
         /\ IF \E k \in 1..Len(C) : C[k].id = resource.id
            THEN /\ Len(result) = Len(C)
                 /\ \A k \in 1..Len(C) :
                      result[k] = IF C[k].id = resource.id THEN resource ELSE C[k]
            ELSE result = C \o <<resource>>
         /\ Settled(o) =>
              /\ cache[collectionKey(Undefined)] = Col(result)
              /\ cache[resourceKey(ops[o].remote)] = ops[o].remote

\* an update ran alone and replaced the element with its id in a collection
\* of two, leaving the other element
C4_Witness ==
  \E o \in Slots :
    /\ Settled(o) /\ ops[o].kind = "update"
    /\ ops[o].seen # Undefined /\ Len(ops[o].seen[2]) = 2
    /\ ops[o].seen[2][2].id = ops[o].remote[2].id
    /\ ops[o].seen[2][2] # ops[o].remote[2]
    /\ ops[o].seen[2][1].id # ops[o].remote[2].id
    /\ cache[collectionKey(Undefined)] = Col(<<ops[o].seen[2][1], ops[o].remote[2]>>)

\* C5 (as claimed): after view, update or partial succeeds, the entry at
\* resourceKey(id), the key of the id that was passed in, is the resource
\* the client returned, for every id and every result.
C5_AsClaimed ==
  \A o \in Slots :
    Settled(o) /\ ops[o].kind \in {"view", "update", "partial"} =>
      cache[resourceKey(ops[o].id)] = ops[o].remote

\* C5 (amended): view, update and partial write the resource the client
\* returned to resourceKey(resource), the key of the returned resource, and
\* to no other resource key; when the operation ran alone that entry is the
\* resource afterwards.  It is the key of the id that was passed in exactly
\* when the returned resource has that id.
C5_ResourceKeyOfResult ==
  \A o \in Slots :
    Ok(o) /\ ops[o].kind \in {"view", "update", "partial"} =>
      /\ Len(ops[o].writes) = 2
      /\ ops[o].writes[2] = <<resourceKey(ops[o].remote), ops[o].remote>>
      /\ (resourceKey(ops[o].remote) = resourceKey(ops[o].id))
           <=> (id(ops[o].remote[2]) = ops[o].id[2])
      /\ Settled(o) => cache[resourceKey(ops[o].remote)] = ops[o].remote

\* a view ran alone and the client returned a resource with another id: the
\* entry of the returned id holds it, the entry of the id passed in is absent
C5_Witness ==
  \E o \in Slots :
    /\ Settled(o) /\ ops[o].kind = "view"
    /\ id(ops[o].remote[2]) # ops[o].id[2]
    /\ cache[resourceKey(ops[o].remote)] = ops[o].remote
    /\ cache[resourceKey(ops[o].id)] = Undefined

\* C6: after a remove(id) that ran alone with a collection entry C at
\* collectionKey(), that entry is remove(id, C) and has no element with the
\* id, and the entry at resourceKey(id) is present with the value null.
C6_RemoveTombstones ==
  \A o \in Slots :
    Settled(o) /\ ops[o].kind = "remove" /\ ops[o].seen # Undefined =>
      LET C == ops[o].seen[2]
          entry == cache[collectionKey(Undefined)]
      IN /\ entry = Col(remove(ops[o].id[2], C))
         /\ entry = Col(SelectSeq(C, LAMBDA r : r.id # ops[o].id[2]))
         /\ \A k \in 1..Len(entry[2]) : entry[2][k].id # ops[o].id[2]
         /\ cache[resourceKey(ops[o].id)] = Null
         /\ cache[resourceKey(ops[o].id)] # Undefined

\* a remove ran alone on a collection holding its id and another id: the
\* other element is left and the id is tombstoned
C6_Witness ==
  \E o \in Slots :
    /\ Settled(o) /\ ops[o].kind = "remove" /\ ops[o].seen # Undefined
    /\ Len(ops[o].seen[2]) = 2
    /\ ops[o].seen[2][1].id = ops[o].id[2]
    /\ ops[o].seen[2][2].id # ops[o].id[2]
    /\ cache[collectionKey(Undefined)] = Col(<<ops[o].seen[2][2]>>)
    /\ cache[resourceKey(ops[o].id)] = Null

\* C7: every operation that succeeds resolves to the value its client call
\* resolved to, whatever the cache held and whatever was written.
C7_ReturnsRemoteResult ==
  \A o \in Slots : Ok(o) => ops[o].ret = ops[o].remote

\* a list returned the client's collection and a remove then returned the
\* client's null, after it changed the collection entry the list had written
C7_Witness ==
  \E o, q \in Slots :
    /\ Ok(o) /\ ops[o].kind = "list" /\ ops[o].remote # Col(<<>>)
    /\ ops[o].ret = ops[o].remote
    /\ Ok(q) /\ ops[q].kind = "remove" /\ ops[q].ret = Null
    /\ ops[q].seen = ops[o].remote
    /\ cache[collectionKey(Undefined)] # ops[o].ret

\* the keys of resources
ResourceKeys == {resourceKey(Str(i)) : i \in Ids}

\* C8: within one operation every cache write comes after the client call
\* has resolved; the first write is the collection entry (collectionKey(params)
\* for list, collectionKey() otherwise), every later write is a resource entry,
\* and list writes the resource entries in the order of all(collection).
C8_CollectionBeforeResources ==
  \A o \in Slots :
    LET w == ops[o].writes
    IN /\ Len(w) = ops[o].idx
       /\ ops[o].pc \in {"idle", "client"} => w = <<>>
       /\ w # <<>> =>
            /\ Len(ops[o].calls) = 1 /\ ops[o].raised = "none"
            /\ w[1][1] = collectionKey(IF ops[o].kind = "list" THEN ops[o].params
                                       ELSE Undefined)
            /\ \A k \in 2..Len(w) : w[k][1] \in ResourceKeys
            /\ ops[o].kind # "list" => Len(w) <= 2
            /\ ops[o].kind = "list" =>
                 /\ w[1][2] = ops[o].remote
                 /\ Len(w) <= 1 + Len(ops[o].remote[2])
                 /\ \A k \in 2..Len(w) :
                      w[k] = <<resourceKey(Res(ops[o].remote[2][k - 1])),
                               Res(ops[o].remote[2][k - 1])>>
       /\ Ok(o) => Len(w) = IF ops[o].kind = "list" THEN 1 + Len(ops[o].remote[2])
                            ELSE 2

\* a list of two resources with different ids is between its two resource
\* writes while an update has written the collection entry only
C8_Witness ==
  \E o, q \in Slots :
    /\ ops[o].kind = "list" /\ ops[o].pc = "mutate" /\ Len(ops[o].writes) = 2
    /\ Len(ops[o].remote[2]) = 2
    /\ ops[o].remote[2][1].id # ops[o].remote[2][2].id
    /\ ops[q].kind = "update" /\ ops[q].pc = "mutate" /\ Len(ops[q].writes) = 1

\* C9: an operation whose client call rejects issues no cache write, leaves
\* every cache entry as it is, called the client once, and rejects with the
\* error the client raised.
C9_FailedCallWritesNothing ==
  /\ [](\A o \in Slots :
          ops[o].raised # "none" =>
            /\ ops[o].pc = "done"
            /\ ops[o].err = ops[o].raised
            /\ ops[o].ret = Undefined
            /\ ops[o].writes = <<>>
            /\ Len(ops[o].calls) = 1)
  /\ [][\A o \in Slots :
          ops[o].pc = "client" /\ ops'[o].pc = "done" =>
            /\ cache' = cache
            /\ ops'[o].raised \in RemoteErrors
            /\ ops'[o].calls = ops[o].calls]_vars

\* an update was rejected with E2 after a list had filled the cache: the
\* update wrote nothing
C9_Witness ==
  \E o, q \in Slots :
    /\ Ok(q) /\ ops[q].kind = "list" /\ Len(ops[q].remote[2]) = 1
    /\ ops[o].kind = "update" /\ ops[o].pc = "done" /\ ops[o].err = "E2"
    /\ ops[o].id[2] = ops[q].remote[2][1].id
    /\ ops[o].writes = <<>>
    /\ cache[collectionKey(Undefined)] = ops[q].remote

\* C10: through a resource binding without an id (undefined), view, update,
\* partial and remove reject with 'id is undefined', call the client never
\* and write nothing; create calls the client and propagates as it does
\* through any binding.
C10_MissingId ==
  \A o \in Slots :
    ops[o].via = "resource" /\ ops[o].id = Undefined =>
      IF ops[o].kind = "create"
      THEN /\ ops[o].pc # "done" \/ ops[o].err \in {"none"} \cup RemoteErrors
           /\ ops[o].calls = << <<"create", Obj("CP")>> >>
           /\ Ok(o) =>
                /\ ops[o].ret = ops[o].remote
                /\ ops[o].writes =
                     << <<collectionKey(Undefined),
                          IF ops[o].seen = Undefined THEN Undefined
                          ELSE Col(upsert(ops[o].remote[2], ops[o].seen[2]))>>,
                        <<resourceKey(ops[o].remote), ops[o].remote>> >>
                /\ Settled(o) => cache[resourceKey(ops[o].remote)] = ops[o].remote
      ELSE /\ ops[o].pc = "done"
           /\ ops[o].err = "id is undefined"
           /\ ops[o].calls = <<>>
           /\ ops[o].writes = <<>>
           /\ ops[o].ret = Undefined

\* through bindings without an id, a create has made both of its writes
\* and a remove was rejected meanwhile
C10_Witness ==
  \E o, q \in Slots :
    /\ ops[o].via = "resource" /\ ops[o].id = Undefined /\ ops[o].kind = "remove"
    /\ ops[o].err = "id is undefined" /\ ops[o].calls = <<>>
    /\ ops[q].via = "resource" /\ ops[q].id = Undefined /\ ops[q].kind = "create"
    /\ ops[q].pc = "mutate" /\ Len(ops[q].writes) = 2
    /\ cache[resourceKey(ops[q].remote)] = ops[q].remote

\* C11: every mutate call is made with revalidate false, so an operation
\* that reached the client has issued exactly one remote call, the call of
\* its api function, however many cache writes it has made; an operation
\* rejected for its id has issued none.
C11_OneRemoteCall ==
  \A o \in Slots :
    /\ ops[o].pc # "idle" /\ ops[o].err # "id is undefined" =>
         /\ Len(ops[o].calls) = 1
         /\ ops[o].calls[1][1] = ops[o].kind
         /\ ops[o].calls[1][2] =
              CASE ops[o].kind = "list" -> ops[o].params
                [] ops[o].kind = "create" -> Obj("CP")
                [] OTHER -> ops[o].id
    /\ ops[o].err = "id is undefined" => ops[o].calls = <<>>

\* a list of two resources has made its three cache writes and an update
\* its two, and each has called the client once
C11_Witness ==
  \E o, q \in Slots :
    /\ ops[o].kind = "list" /\ Len(ops[o].writes) = 3 /\ Len(ops[o].calls) = 1
    /\ ops[q].kind = "update" /\ Len(ops[q].writes) = 2 /\ Len(ops[q].calls) = 1

\* the resources of a collection with the id i
withId(collection, i) ==
  {collection[k] : k \in {j \in 1..Len(collection) : collection[j].id = i}}

\* C12 (as claimed): whenever no operation is in flight, for every id i, an
\* element with id i of the entry at collectionKey() equals the resource held
\* at resourceKey(i), and when resourceKey(i) holds null the collection entry
\* has no element with id i.
C12_AsClaimed ==
  (\A q \in Slots : ~InFlight(q)) =>
    \A i \in Ids :
      LET entry == cache[resourceKey(Str(i))]
          C == cache[collectionKey(Undefined)]
      IN C # Undefined =>
           /\ entry \notin {Undefined, Null} => \A r \in withId(C[2], i) : Res(r) = entry
           /\ entry = Null => withId(C[2], i) = {}

\* C12 (amended): after an operation that ran alone and succeeded, the two
\* views agree on the ids the operation wrote.  After create, view, update
\* and partial the resource entry of the returned resource is that resource
\* and every element with its id in the entry at collectionKey(), at least
\* one, is that resource; after remove(id) the entry at resourceKey(id) is
\* null and the collection entry has no element with the id; after a list
\* without params the resource entry of every id of the collection is the
\* last element with that id.
C12_ConsistentAfterOperation ==
  \A o \in Slots :
    Settled(o) =>
      LET C == cache[collectionKey(Undefined)]
          remote == ops[o].remote
      IN /\ ops[o].kind \in UpsertKinds =>
              /\ cache[resourceKey(remote)] = remote
              /\ C # Undefined => withId(C[2], id(remote[2])) = {remote[2]}
         /\ ops[o].kind = "remove" =>
              /\ cache[resourceKey(ops[o].id)] = Null
              /\ C # Undefined => withId(C[2], ops[o].id[2]) = {}
         /\ ops[o].kind = "list" /\ ops[o].params = Undefined =>
              /\ C = remote
              /\ \A i \in Ids :
                   withId(C[2], i) # {} =>
                     cache[resourceKey(Str(i))] = Res(lastWithId(C[2], i))

\* an update ran alone on a collection that held its id twice with different
\* content: both elements and the resource entry are now the returned resource
C12_Witness ==
  \E o \in Slots :
    LET C == cache[collectionKey(Undefined)]
    IN /\ Settled(o) /\ ops[o].kind = "update"
       /\ ops[o].seen # Undefined /\ Len(ops[o].seen[2]) = 2
       /\ ops[o].seen[2][1] # ops[o].seen[2][2]
       /\ ops[o].seen[2][1].id = ops[o].seen[2][2].id
       /\ C = Col(<<ops[o].remote[2], ops[o].remote[2]>>)
       /\ cache[resourceKey(ops[o].remote)] = ops[o].remote

\* the operations that issue a mutate call for key k in this step, and the
\* data of the call of operation o
WritersOf(k) ==
  {o \in Slots : /\ Len(ops'[o].writes) = Len(ops[o].writes) + 1
                 /\ ops'[o].writes[Len(ops'[o].writes)][1] = k
                 /\ ops'[o].writes[Len(ops'[o].writes)][2] # Undefined}

Written(o) == ops'[o].writes[Len(ops'[o].writes)][2]

\* C13: whatever else is in flight, a cache write of an operation replaces
\* the entry at its key with the operation's data, and an entry changes in no
\* other way; so the value left in a key is the one of the write to that key
\* that happened last, whichever operation was started first.
C13_LastWriteWins ==
  [][\A k \in Keys :
       IF WritersOf(k) = {} THEN cache'[k] = cache[k]
       ELSE \A o \in WritersOf(k) : cache'[k] = Written(o)]_vars

\* two updates of one id were in flight together and the client answered
\* them with different resources; both have written the resource entry and
\* it holds the result of the update that was started first (the operation
\* of slot 1 when two operations were started and both slots are in use)
C13_Witness ==
  /\ started = 2
  /\ \A o \in Slots : Ok(o) /\ ops[o].kind = "update" /\ ops[o].id = Str("1")
  /\ id(ops[1].remote[2]) = "1" /\ id(ops[2].remote[2]) = "1"
  /\ ops[1].remote # ops[2].remote
  /\ cache[resourceKey(Str("1"))] = ops[1].remote

\* the operation of slot o ended because a mutate call rejected
WriteFailed(o) == ops[o].pc = "done" /\ ops[o].err \in CacheErrors

\* C14: when the collection write of create, view, update, partial or remove
\* succeeds and the resource write rejects, the operation rejects with the
\* error of the write and returns nothing; its first write changed the
\* collection entry only, the failing write changes no entry, and afterwards
\* the collection entry is the updated one (absent when there was none): it
\* is not put back.
C14_ResourceWriteFails ==
  /\ [](\A o \in Slots :
          WriteFailed(o) /\ ops[o].kind # "list" /\ Len(ops[o].writes) = 1 =>
            /\ ops[o].ret = Undefined
            /\ ops[o].writes[1] =
                 <<collectionKey(Undefined),
                   IF ops[o].kind = "remove" THEN removeUpdater(ops[o].id, ops[o].seen)
                   ELSE upsertUpdater(ops[o].remote, ops[o].seen)>>
            /\ cache[collectionKey(Undefined)] =
                 IF ops[o].seen = Undefined THEN Undefined ELSE ops[o].writes[1][2])
  /\ [][\A o \in Slots :
          ops[o].kind # "list" /\ InFlight(o) /\ ops'[o] # ops[o] =>
            /\ ops[o].pc = "client" =>
                 \A k \in ResourceKeys : cache'[k] = cache[k]
            /\ WriteFailed(o)' =>
                 /\ cache' = cache
                 /\ ops'[o].writes = ops[o].writes]_vars

\* an update failed at its resource write after it had replaced the element
\* of its id in the collection entry: the resource entry still holds the
\* resource the collection held before
C14_Witness ==
  \E o \in Slots :
    /\ WriteFailed(o) /\ ops[o].kind = "update" /\ Len(ops[o].writes) = 1
    /\ ops[o].seen # Undefined /\ Len(ops[o].seen[2]) = 1
    /\ ops[o].seen[2][1].id = id(ops[o].remote[2])
    /\ ops[o].seen[2][1] # ops[o].remote[2]
    /\ cache[collectionKey(Undefined)] = Col(<<ops[o].remote[2]>>)
    /\ cache[resourceKey(ops[o].remote)] = Res(ops[o].seen[2][1])

\* the mutate calls listResources makes for a collection, in order
ListWrites(params, collection) ==
  << <<collectionKey(params), Col(collection)>> >>
    \o [k \in 1..Len(all(collection)) |->
          <<resourceKey(Res(all(collection)[k])), Res(all(collection)[k])>>]

\* C15: a mutate call that rejects ends its operation: the operation rejects
\* with the error of the write, returns nothing, has called the client once
\* and made fewer writes than it would have; the failing step changes no
\* entry and logs no write, and the record of the operation never advances
\* afterwards.  When the first write fails nothing was written; a list that
\* fails on a resource write has written the collection entry and the
\* resources before the failing one, which stay as written, and no step of a
\* list changes any key but the one it writes.
C15_WriteFailureEndsOperation ==
  /\ [](\A o \in Slots :
          WriteFailed(o) =>
            /\ ops[o].ret = Undefined
            /\ Len(ops[o].calls) = 1 /\ ops[o].raised = "none"
            /\ Len(ops[o].writes) < MutateCalls(o)
            /\ ops[o].kind = "list" =>
                 LET w == ops[o].writes
                 IN /\ w = SubSeq(ListWrites(ops[o].params, ops[o].remote[2]), 1, Len(w))
                    /\ \A j \in 1..Len(w) :
                         (\A l \in (j + 1)..Len(w) : w[l][1] # w[j][1])
                           => cache[w[j][1]] = w[j][2])
  /\ [][\A o \in Slots :
          /\ WriteFailed(o) =>
               \/ ops'[o] \in {ops[o], IdleOp}
               \/ ops'[o].kind = "fetch"
               \/ started' = started + 1
          /\ ~WriteFailed(o) /\ WriteFailed(o)' =>
               /\ cache' = cache
               /\ ops'[o].writes = ops[o].writes
               /\ ops'[o].calls = ops[o].calls
          /\ ops[o].kind = "list" /\ InFlight(o) /\ ops'[o] # ops[o] =>
               \A k \in Keys :
                 cache'[k] # cache[k] =>
                   /\ Len(ops'[o].writes) = Len(ops[o].writes) + 1
                   /\ ops'[o].writes[Len(ops'[o].writes)][1] = k]_vars

\* a list of two resources with different ids failed on its second resource
\* write: the collection entry and the first resource entry are written, the
\* entry of the second resource is absent
C15_Witness ==
  \E o \in Slots :
    /\ WriteFailed(o) /\ ops[o].kind = "list" /\ Len(ops[o].writes) = 2
    /\ Len(ops[o].remote[2]) = 2
    /\ ops[o].remote[2][1].id # ops[o].remote[2][2].id
    /\ cache[collectionKey(ops[o].params)] = ops[o].remote
    /\ cache[resourceKey(Res(ops[o].remote[2][1]))] = Res(ops[o].remote[2][1])
    /\ cache[resourceKey(Res(ops[o].remote[2][2]))] = Undefined

\* the resource entry of id i equals every element with id i of the entry at
\* collectionKey()
Agree(i) ==
  LET C == cache[collectionKey(Undefined)]
  IN C # Undefined => \A r \in withId(C[2], i) : cache[resourceKey(Str(i))] = Res(r)

\* the operation of slot o succeeded, alone, and nothing has happened since
Alone(o) == Ok(o) /\ ops[o].solo /\ Idle

\* C16 (as claimed): once an operation has left the collection entry updated
\* and the resource entry of id i stale, the next successful fetch of either
\* key (list() or view(i) through the api, or the passive fetch of the
\* collection key or of resourceKey(i)) leaves the entry at resourceKey(i)
\* equal to the element with id i of the entry at collectionKey().
C16_AsClaimed ==
  /\ [](\A o \in Slots, i \in Ids :
          /\ Alone(o) /\ i \in ops[o].stale
          /\ \/ ops[o].kind = "list" /\ ops[o].params = Undefined
             \/ ops[o].kind = "view" /\ ops[o].id = Str(i)
          => Agree(i))
  /\ [][\A i \in Ids :
          /\ Idle /\ i \in StaleIds
          /\ \/ \E collection \in ClientResults("list") :
                  FetchCollection(Undefined, collection)
             \/ \E resource \in ClientResults("view") :
                  FetchResource(Str(i), resource)
          => Agree(i)']_vars

\* C16 (amended): once an operation has left the collection entry updated
\* and the resource entry of id i stale, the divergence is resolved when the
\* next operation is a list() without params that succeeds with a collection
\* holding id i, or a view(i) that succeeds with a resource of id i: after the
\* list the entry at resourceKey(i) is the last element with id i of the
\* collection entry (equal to the element when the id is there once), after
\* the view every element with id i and the resource entry are the returned
\* resource.  A passive fetch stores what it fetched under its own key only:
\* after the fetch of the collection key the resource entry is the stale one,
\* after the fetch of resourceKey(i) the collection entry is as it was.
C16_FetchResolves ==
  /\ [](\A o \in Slots, i \in Ids :
          Alone(o) /\ i \in ops[o].stale =>
            LET C == cache[collectionKey(Undefined)]
            IN /\ /\ ops[o].kind = "list" /\ ops[o].params = Undefined
                  /\ withId(ops[o].remote[2], i) # {}
                  => /\ C = ops[o].remote
                     /\ cache[resourceKey(Str(i))] = Res(lastWithId(C[2], i))
                     /\ Cardinality(withId(C[2], i)) = 1 => Agree(i)
               /\ /\ ops[o].kind = "view" /\ ops[o].id = Str(i)
                  /\ id(ops[o].remote[2]) = i
                  => /\ C # Undefined
                     /\ withId(C[2], i) = {ops[o].remote[2]}
                     /\ cache[resourceKey(Str(i))] = ops[o].remote
                     /\ Agree(i))
  /\ [][\A i \in Ids :
          Idle /\ i \in StaleIds =>
            /\ \A collection \in ClientResults("list") :
                 FetchCollection(Undefined, collection) =>
                   /\ cache'[collectionKey(Undefined)] = collection
                   /\ cache'[resourceKey(Str(i))] = cache[resourceKey(Str(i))]
            /\ \A resource \in ClientResults("view") :
                 FetchResource(Str(i), resource) =>
                   /\ cache'[resourceKey(Str(i))] = resource
                   /\ cache'[collectionKey(Undefined)] = cache[collectionKey(Undefined)]]_vars

\* an operation had left the collection entry updated and the resource entry
\* of id "1" stale; the view of "1" that came next returned a resource with
\* that id, and the collection entry and the resource entry now hold it
C16_Witness ==
  \E o \in Slots :
    /\ Alone(o) /\ ops[o].kind = "view" /\ ops[o].id = Str("1")
    /\ ops[o].stale = {"1"}
    /\ id(ops[o].remote[2]) = "1"
    /\ withId(cache[collectionKey(Undefined)][2], "1") = {ops[o].remote[2]}
    /\ cache[resourceKey(Str("1"))] = ops[o].remote

\* the collection keys with params
FilteredKeys == {collectionKey(p) : p \in ListParams \ {Undefined}}

\* C17: create, view, update, partial and remove, through whatever binding
\* they were invoked, write no key but collectionKey() and resource keys, and
\* no step of theirs changes a collection entry under a key with params.
C17_FilteredKeysUntouched ==
  /\ [](\A o \in Slots :
          ops[o].kind \in UpsertKinds \cup {"remove"} =>
            \A k \in 1..Len(ops[o].writes) :
              ops[o].writes[k][1] \in {collectionKey(Undefined)} \cup ResourceKeys)
  /\ [][\A o \in Slots :
          /\ ops[o].kind \in UpsertKinds \cup {"remove"}
          /\ InFlight(o) /\ ops'[o] # ops[o]
          => \A key \in FilteredKeys : cache'[key] = cache[key]]_vars

\* an update ran alone while the entry of the key with params held an
\* element with its id and other content: that entry is as it was, the
\* resource entry holds the update
C17_Witness ==
  \E o \in Slots, key \in FilteredKeys :
    /\ Settled(o) /\ ops[o].kind = "update" /\ ops[o].via = "collection"
    /\ cache[key] # Undefined /\ Len(cache[key][2]) = 1
    /\ cache[key][2][1].id = id(ops[o].remote[2])
    /\ cache[key][2][1] # ops[o].remote[2]
    /\ cache[resourceKey(ops[o].remote)] = ops[o].remote

\* the number of mutate calls the operation of slot o has issued for a key
WritesTo(o, key) ==
  Cardinality({k \in 1..Len(ops[o].writes) : ops[o].writes[k][1] = key})

\* C18 (as claimed): an operation that succeeded has issued one mutate call
\* for every key it wrote and none for any other key: create, view, update,
\* partial and remove for collectionKey() and one resource key, list for
\* collectionKey(params) and the resource key of every resource of the
\* collection.
C18_AsClaimed ==
  \A o \in Slots :
    Ok(o) =>
      LET collection == IF ops[o].kind = "list" THEN collectionKey(ops[o].params)
                        ELSE collectionKey(Undefined)
          resources ==
            CASE ops[o].kind = "list" ->
                   {resourceKey(Res(ops[o].remote[2][k])) : k \in 1..Len(ops[o].remote[2])}
              [] ops[o].kind = "remove" -> {resourceKey(ops[o].id)}
              [] OTHER -> {resourceKey(ops[o].remote)}
      IN \A key \in Keys :
           WritesTo(o, key) = IF key \in {collection} \cup resources THEN 1 ELSE 0

\* C18 (amended): create, view, update, partial and remove issue one mutate
\* call for collectionKey() and then one for one resource key, and none for
\* any other key; list issues one for collectionKey(params) and then one per
\* resource of all(collection), for the key of that resource: a resource key
\* is written as many times as the collection has resources with its id,
\* once when the ids of the collection are distinct.
C18_OneWritePerResource ==
  \A o \in Slots :
    Ok(o) =>
      IF ops[o].kind = "list"
      THEN LET collection == ops[o].remote[2]
           IN /\ ops[o].writes = ListWrites(ops[o].params, collection)
              /\ WritesTo(o, collectionKey(ops[o].params)) = 1
              /\ \A key \in Keys \ {collectionKey(ops[o].params)} :
                   WritesTo(o, key) =
                     Cardinality({k \in 1..Len(collection) :
                                    resourceKey(Res(collection[k])) = key})
              /\ (\A j, k \in 1..Len(collection) :
                     j # k => collection[j].id # collection[k].id)
                   => \A key \in Keys : WritesTo(o, key) <= 1
      ELSE /\ Len(ops[o].writes) = 2
           /\ ops[o].writes[1][1] = collectionKey(Undefined)
           /\ ops[o].writes[2][1] =
                IF ops[o].kind = "remove" THEN resourceKey(ops[o].id)
                ELSE resourceKey(ops[o].remote)
           /\ \A key \in Keys :
                WritesTo(o, key) =
                  IF key \in {ops[o].writes[1][1], ops[o].writes[2][1]} THEN 1 ELSE 0

\* a list succeeded with a collection that holds one id twice: the key of
\* that id was written twice, the collection key once
C18_Witness ==
  \E o \in Slots :
    /\ Ok(o) /\ ops[o].kind = "list" /\ Len(ops[o].remote[2]) = 2
    /\ ops[o].remote[2][1].id = ops[o].remote[2][2].id
    /\ WritesTo(o, resourceKey(Res(ops[o].remote[2][1]))) = 2
    /\ WritesTo(o, collectionKey(ops[o].params)) = 1

\* C19: an entry that exists exists in every later state, holding a
\* resource, a collection or null: no step deletes it.  A remove writes null
\* to the key of its id, so that after a remove that ran alone the entry is
\* there, with the value null, which is not the absence of an entry.
C19_NoEntryDeleted ==
  /\ [](\A o \in Slots :
          /\ Null # Undefined
          /\ ops[o].kind = "remove" /\ Len(ops[o].writes) = 2 =>
               ops[o].writes[2] = <<resourceKey(ops[o].id), Null>>
          /\ Settled(o) /\ ops[o].kind = "remove" =>
               cache[resourceKey(ops[o].id)] = Null)
  /\ [][\A key \in Keys : cache[key] # Undefined => cache'[key] # Undefined]_vars

\* a remove ran alone on the id of a collection of one that a list had
\* cached: the entry of the id is null, the entry of the other id is absent
C19_Witness ==
  \E o \in Slots, i \in Ids :
    /\ Settled(o) /\ ops[o].kind = "remove"
    /\ ops[o].seen # Undefined /\ Len(ops[o].seen[2]) = 1
    /\ ops[o].seen[2][1].id = ops[o].id[2]
    /\ cache[resourceKey(ops[o].id)] = Null
    /\ i # ops[o].id[2]
    /\ cache[resourceKey(Str(i))] = Undefined

\* C20: upsert(r, C) of a resource whose id no element of C has is C with r
\* appended: one element longer, the elements of C in their places, r last.
C20_UpsertAppends ==
  ops[1].via = "adapter" /\ ops[1].kind = "upsert" =>
    LET C == ops[1].seen[2]
        r == ops[1].remote[2]
        result == ops[1].ret[2]
    IN (\A k \in 1..Len(C) : C[k].id # r.id) =>
         /\ result = C \o <<r>>
         /\ Len(result) = Len(C) + 1
         /\ \A k \in 1..Len(C) : result[k] = C[k]
         /\ result[Len(result)] = r

\* upsert was applied to a collection of MaxLen resources, two of them
\* different, and a resource with another id: the result ends with the resource
C20_Witness ==
  /\ ops[1].via = "adapter" /\ ops[1].kind = "upsert"
  /\ Len(ops[1].seen[2]) = MaxLen
  /\ ops[1].seen[2][1] # ops[1].seen[2][2]
  /\ \A k \in 1..MaxLen : ops[1].seen[2][k].id # ops[1].remote[2].id
  /\ ops[1].ret = Col(Append(ops[1].seen[2], ops[1].remote[2]))

\* the record of slot 1 is a call of the adapter function fn
Called(fn) == ops[1].via = "adapter" /\ ops[1].pc = "done" /\ ops[1].kind = fn

\* C21 (as claimed): upsert(r, C) of a resource whose id an element of C has
\* is as long as C, has r in the place of the first element with the id, and
\* has every other element of C in its place.
C21_AsClaimed ==
  Called("upsert") =>
    LET C == ops[1].seen[2]
        r == ops[1].remote[2]
        result == ops[1].ret[2]
        first(k) == C[k].id = r.id /\ \A j \in 1..(k - 1) : C[j].id # r.id
    IN (\E k \in 1..Len(C) : C[k].id = r.id) =>
         /\ Len(result) = Len(C)
         /\ \A k \in 1..Len(C) : result[k] = IF first(k) THEN r ELSE C[k]

\* C21 (amended): upsert(r, C) of a resource whose id an element of C has is
\* as long as C, has r in the place of every element with the id, and has
\* every element with another id in its place; when one element has the id,
\* that one is replaced and all others are unchanged.  defaultUpsert reports
\* inserted = false.
C21_UpsertReplaces ==
  /\ Called("upsert") =>
       LET C == ops[1].seen[2]
           r == ops[1].remote[2]
           result == ops[1].ret[2]
       IN (\E k \in 1..Len(C) : C[k].id = r.id) =>
            /\ Len(result) = Len(C)
            /\ \A k \in 1..Len(C) : result[k] = IF C[k].id = r.id THEN r ELSE C[k]
            /\ Cardinality({k \in 1..Len(C) : C[k].id = r.id}) = 1 =>
                 Cardinality({k \in 1..Len(C) : result[k] # C[k]}) <= 1
  /\ Called("defaultUpsert") =>
       LET C == ops[1].seen[2]
           r == ops[1].remote[2]
       IN /\ ops[1].ret[2].inserted = (\A k \in 1..Len(C) : C[k].id # r.id)
          /\ ops[1].ret[2].result = upsert(r, C)

\* upsert was applied to a collection of three whose first and last elements
\* have the id of the resource, with contents other than the resource's: both
\* are replaced, the middle one is kept
C21_Witness ==
  /\ Called("upsert")
  /\ Len(ops[1].seen[2]) = 3
  /\ ops[1].seen[2][1].id = ops[1].remote[2].id
  /\ ops[1].seen[2][3].id = ops[1].remote[2].id
  /\ ops[1].seen[2][3] # ops[1].remote[2]
  /\ ops[1].seen[2][2].id # ops[1].remote[2].id
  /\ ops[1].ret = Col(<<ops[1].remote[2], ops[1].seen[2][2], ops[1].remote[2]>>)

\* C22: remove(i, C) for an id no element of C has is C: as long, the same
\* elements in the same places; defaultFilter reports removed = false and the
\* same result.
C22_RemoveAbsentId ==
  LET C == ops[1].seen[2]
      i == ops[1].id[2]
      absent == \A k \in 1..Len(C) : C[k].id # i
  IN /\ Called("remove") /\ absent =>
          /\ ops[1].ret = Col(C)
          /\ Len(ops[1].ret[2]) = Len(C)
          /\ \A k \in 1..Len(C) : ops[1].ret[2][k] = C[k]
     /\ Called("defaultFilter") /\ absent =>
          /\ ops[1].ret[2].removed = FALSE
          /\ ops[1].ret[2].result = C

\* defaultFilter was applied to a collection of three, two of them different,
\* and an id none of them has: removed is false, the result is the collection
C22_Witness ==
  /\ Called("defaultFilter")
  /\ Len(ops[1].seen[2]) = 3
  /\ ops[1].seen[2][1] # ops[1].seen[2][2]
  /\ \A k \in 1..3 : ops[1].seen[2][k].id # ops[1].id[2]
  /\ ops[1].ret = Obj([removed |-> FALSE, result |-> ops[1].seen[2]])

\* C23: remove(i, C) for an id an element of C has is C without the elements
\* with the id: no element of the result has the id, and the elements with
\* another id are all there, as they were and in the order they had;
\* defaultFilter reports removed = true.
C23_RemovePresentId ==
  LET C == ops[1].seen[2]
      i == ops[1].id[2]
      present == \E k \in 1..Len(C) : C[k].id = i
      kept == {k \in 1..Len(C) : C[k].id # i}
      \* the place in the result of the kept element at place k of C
      place(k) == Cardinality({j \in kept : j <= k})
  IN /\ Called("remove") /\ present =>
          LET result == ops[1].ret[2]
          IN /\ \A n \in 1..Len(result) : result[n].id # i
             /\ Len(result) = Cardinality(kept)
             /\ Len(result) < Len(C)
             /\ \A k \in kept : result[place(k)] = C[k]
     /\ Called("defaultFilter") /\ present =>
          /\ ops[1].ret[2].removed = TRUE
          /\ \A n \in 1..Len(ops[1].ret[2].result) : ops[1].ret[2].result[n].id # i

\* remove was applied to a collection of three with the id in the middle and
\* two different resources of another id around it: those two are the result
C23_Witness ==
  /\ Called("remove")
  /\ Len(ops[1].seen[2]) = 3
  /\ ops[1].seen[2][2].id = ops[1].id[2]
  /\ ops[1].seen[2][1].id # ops[1].id[2]
  /\ ops[1].seen[2][3].id # ops[1].id[2]
  /\ ops[1].seen[2][1] # ops[1].seen[2][3]
  /\ ops[1].ret = Col(<<ops[1].seen[2][1], ops[1].seen[2][3]>>)

\* C24: the key resourceKey gives for a resource is the key it gives for the
\* id of that resource: the pair of the cache key and the id.
C24_ResourceKeyOfId ==
  Called("resourceKey") =>
    \A j, k \in 1..Len(ops[1].calls) :
      LET a == ops[1].calls[j]
          b == ops[1].calls[k]
      IN /\ a[1][1] = "resource" => a[2] = <<cacheKey, Str(id(a[1][2]))>>
         /\ a[1][1] = "resource" /\ b[1] = Str(id(a[1][2])) => a[2] = b[2]
         /\ a[1][1] = "resource" /\ b[1][1] = "string" /\ b[1] # Str(id(a[1][2]))
              => a[2] # b[2]

\* resourceKey was called with a resource and with the id of that resource,
\* and gave one key
C24_Witness ==
  /\ Called("resourceKey") /\ Len(ops[1].calls) = 2
  /\ ops[1].calls[1][1][1] = "resource"
  /\ ops[1].calls[2][1] = Str(id(ops[1].calls[1][1][2]))
  /\ ops[1].calls[1][2] = ops[1].calls[2][2]

\* C25: collectionKey gives equal keys for equal params and different keys
\* for different params, in whatever order it is called; without params
\* (undefined) it gives the pair of the cache key and undefined.
C25_CollectionKeyInjective ==
  Called("collectionKey") =>
    \A j, k \in 1..Len(ops[1].calls) :
      LET a == ops[1].calls[j]
          b == ops[1].calls[k]
      IN /\ (a[1] = b[1]) <=> (a[2] = b[2])
         /\ a[1] = Undefined => a[2] = <<cacheKey, Undefined>>

\* collectionKey was called without params and then with a filter object,
\* and gave two keys
C25_Witness ==
  /\ Called("collectionKey") /\ Len(ops[1].calls) = 2
  /\ ops[1].calls[1][1] = Undefined
  /\ ops[1].calls[2][1] = Obj("some")
  /\ ops[1].calls[1][2] # ops[1].calls[2][2]

Finished(o) ==
  /\ ops[o].pc = "done"
  /\ \/ ops[o].err # "none"
     \/ /\ ops[o].idx = MutateCalls(o)
        /\ Len(ops[o].writes) = MutateCalls(o)
        /\ ops[o].ret = ops[o].remote

\* C29: an operation in flight is never abandoned, and when every remote
\* call and every mutate call settles it finishes: resolved with all its
\* writes made, or rejected.
C29_OperationsFinish ==
  /\ \A o \in Slots : InFlight(o) ~> Finished(o)
  /\ [][\A o \in Slots : InFlight(o) => InFlight(o)' \/ Finished(o)']_vars

\* a list of two resources has resolved after its three mutate calls
C29_Witness ==
  \E o \in Slots :
    /\ Finished(o) /\ ops[o].kind = "list" /\ ops[o].err = "none"
    /\ ops[o].idx = 3

\* ------------------------------------------ operations in flight together
\* the cache after the mutate calls `writes`, made in order
RECURSIVE MutateAll(_, _)
MutateAll(c, writes) ==
  IF writes = <<>> THEN c
  ELSE MutateAll(mutate(c, writes[1][1], writes[1][2]), Tail(writes))

\* the cache as a successful api.list of a binding without params leaves it
InitListed ==
  /\ \E collection \in ListResults :
       cache = MutateAll([k \in Keys |-> Undefined], ListWrites(Undefined, collection))
  /\ ops = [o \in Slots |-> IdleOp]
  /\ started = 0

\* create, view, update, partial and remove of a collection binding, started
\* at any time and continued in any order; no list is started
NextConcurrent ==
  \/ \E o \in Slots, params \in ListParams : CollectionCreate(o, params)
  \/ \E o \in Slots, params \in ListParams, i \in Ids : CollectionView(o, params, Str(i))
  \/ \E o \in Slots, params \in ListParams, i \in Ids : CollectionUpdate(o, params, Str(i))
  \/ \E o \in Slots, params \in ListParams, i \in Ids : CollectionPartial(o, params, Str(i))
  \/ \E o \in Slots, params \in ListParams, i \in Ids : CollectionRemove(o, params, Str(i))
  \/ \E o \in Slots, e \in RemoteErrors : ClientReject(o, e)
  \/ \E o \in Slots : createResource(o)
  \/ \E o \in Slots : viewResource(o)
  \/ \E o \in Slots : updateResource(o)
  \/ \E o \in Slots : partialResource(o)
  \/ \E o \in Slots : removeResource(o)

SpecConcurrent == InitListed /\ [][NextConcurrent]_vars

\* the id the operation of slot o upserts or removes
Target(o) ==
  IF ops[o].kind = "remove" THEN ops[o].id[2] ELSE id(ops[o].remote[2])

\* the collection entry shows what the operation of slot o did: the
\* resource it upserted is an element, the id it removed is the id of none
Reflects(o) ==
  LET collection == cache[collectionKey(Undefined)][2]
  IN IF ops[o].kind = "remove"
     THEN \A j \in 1..Len(collection) : id(collection[j]) # ops[o].id[2]
     ELSE \E j \in 1..Len(collection) : collection[j] = ops[o].remote[2]

\* C30: when the collection entry is present, no list runs, and the
\* operations started (create, view, update, partial, remove) were in flight
\* together on different ids and have all succeeded, the collection entry
\* reflects every one of them, whatever the order of their steps.
C30_NoLostUpdate ==
  \A o, q \in Slots :
    /\ o # q /\ Ok(o) /\ Ok(q)
    /\ ~ops[o].solo /\ ~ops[q].solo
    /\ started = Cardinality({r \in Slots : ops[r].pc = "done"})
    /\ Target(o) # Target(q)
    => Reflects(o) /\ Reflects(q)

\* an update of id 1 and a remove of id 2, in flight together on a
\* collection holding both ids, have succeeded: the collection is the
\* updated resource alone
C30_Witness ==
  \E o, q \in Slots :
    /\ Ok(o) /\ Ok(q) /\ ~ops[o].solo /\ ~ops[q].solo
    /\ ops[o].kind = "update" /\ ops[q].kind = "remove"
    /\ ops[o].remote[2] = [id |-> "1", v |-> 1]
    /\ ops[q].id = Str("2")
    /\ Len(ops[o].seen[2]) = 2 /\ Len(ops[q].seen[2]) = 2
    /\ cache[collectionKey(Undefined)] = Col(<<ops[o].remote[2]>>)

\* no two elements of the collection have the same id
DistinctIds(collection) ==
  \A j, k \in 1..Len(collection) :
    j # k => id(collection[j]) # id(collection[k])

\* C31: no step of create, view, update, partial or remove brings a
\* duplicate id into the entry at collectionKey(): when its elements have
\* pairwise distinct ids before the step they have after it, in every order
\* of the steps of the operations in flight.
C31_NoDuplicateEnters ==
  [][LET before == cache[collectionKey(Undefined)]
         after == cache'[collectionKey(Undefined)]
     IN before # Undefined /\ DistinctIds(before[2]) =>
          after # Undefined /\ DistinctIds(after[2])]_vars

\* a create and an update in flight together have both written a collection
\* of one resource: it holds two resources of different ids, the updated
\* one and the created one
C31_Witness ==
  \E o, q \in Slots :
    /\ Ok(o) /\ Ok(q) /\ ~ops[o].solo /\ ~ops[q].solo
    /\ ops[o].kind = "create" /\ ops[q].kind = "update"
    /\ Len(ops[q].seen[2]) = 1 /\ Len(ops[o].seen[2]) = 1
    /\ ops[q].seen[2][1] # ops[q].remote[2]
    /\ cache[collectionKey(Undefined)] = Col(<<ops[q].remote[2], ops[o].remote[2]>>)
    /\ DistinctIds(cache[collectionKey(Undefined)][2])

\* the number of elements of the collection that have id i
Matches(collection, i) ==
  Cardinality({k \in 1..Len(collection) : id(collection[k]) = i})

\* Number(flag)
Number(flag) == IF flag THEN 1 ELSE 0

\* C32 as stated: inserted is true iff no element had the id of the
\* resource and the result of defaultUpsert has Number(inserted) elements
\* more than the collection; removed is true iff some element had the id
\* and the result of defaultFilter has Number(removed) elements fewer.
C32_AsClaimed ==
  LET C == ops[1].seen[2]
  IN /\ Called("defaultUpsert") =>
          /\ ops[1].ret[2].inserted <=> Matches(C, id(ops[1].remote[2])) = 0
          /\ Len(ops[1].ret[2].result) = Len(C) + Number(ops[1].ret[2].inserted)
     /\ Called("defaultFilter") =>
          /\ ops[1].ret[2].removed <=> Matches(C, ops[1].id[2]) > 0
          /\ Len(ops[1].ret[2].result) = Len(C) - Number(ops[1].ret[2].removed)

\* C32: inserted is true iff no element had the id of the resource and the
\* result of defaultUpsert has Number(inserted) elements more than the
\* collection; removed is true iff some element had the id, and the result
\* of defaultFilter has as many elements fewer as had the id: Number(removed)
\* fewer when the ids of the collection are pairwise distinct.
C32_FlagsCountChange ==
  LET C == ops[1].seen[2]
  IN /\ Called("defaultUpsert") =>
          /\ ops[1].ret[2].inserted <=> Matches(C, id(ops[1].remote[2])) = 0
          /\ Len(ops[1].ret[2].result) = Len(C) + Number(ops[1].ret[2].inserted)
     /\ Called("defaultFilter") =>
          /\ ops[1].ret[2].removed <=> Matches(C, ops[1].id[2]) > 0
          /\ Len(ops[1].ret[2].result) = Len(C) - Matches(C, ops[1].id[2])
          /\ DistinctIds(C) =>
               Len(ops[1].ret[2].result) = Len(C) - Number(ops[1].ret[2].removed)

\* defaultFilter has removed the one element with the id from a collection
\* of two ids
C32_Witness ==
  /\ Called("defaultFilter") /\ ops[1].ret[2].removed
  /\ Len(ops[1].seen[2]) = 2 /\ DistinctIds(ops[1].seen[2])
  /\ Len(ops[1].ret[2].result) = 1

\* C33: the key of a collection differs from the key of a resource, for
\* every list params, none included, and every id.
C33_KeysDisjoint ==
  Called("keys") => ops[1].calls[1][2] # ops[1].calls[2][2]

\* C34: a step of list(params) changes no entry but the one at
\* collectionKey(params) and the resource entries of the ids in the
\* collection the client resolved to: the resource entries of other ids,
\* tombstones included, and the collection entries of other params stay as
\* they are.
C34_ListFrame ==
  [][\A o \in Slots :
       ops[o].kind = "list" /\ InFlight(o) /\ ops'[o] # ops[o] =>
         \A k \in Keys :
           cache'[k] # cache[k] =>
             \/ k = collectionKey(ops[o].params)
             \/ \E j \in 1..Len(all(ops'[o].remote[2])) :
                  k = resourceKey(Str(id(all(ops'[o].remote[2])[j])))]_vars

\* a list with params has resolved to one resource of id 1 and succeeded:
\* the entry without params is still absent and the tombstone of id 2 is
\* still there
C34_Witness ==
  \E o \in Slots :
    /\ Ok(o) /\ ops[o].kind = "list" /\ ops[o].params = Obj("some")
    /\ Len(ops[o].remote[2]) = 1 /\ id(ops[o].remote[2][1]) = "1"
    /\ cache[collectionKey(Obj("some"))] = ops[o].remote
    /\ cache[collectionKey(Undefined)] = Undefined
    /\ cache[resourceKey(Str("2"))] = Null

\* C35: an upsert of the resource already upserted and a remove of the id
\* already removed return the array they were given, and a remove of the id
\* of the resource just upserted returns what a remove on the first array
\* returns.
C35_Idempotent ==
  ops[1].via = "adapter" /\ ops[1].pc = "done" =>
    LET C == ops[1].seen[2]
        r == ops[1].remote[2]
    IN /\ ops[1].kind = "upsert, upsert" =>
            ops[1].ret = ops[1].calls[2][1]
       /\ ops[1].kind = "remove, remove" =>
            ops[1].ret = ops[1].calls[2][1]
       /\ ops[1].kind = "upsert, remove" /\ ops[1].id[2] = id(r) =>
            /\ ops[1].calls[2][1] = Col(upsert(r, C))
            /\ ops[1].ret = Col(SelectSeq(C, LAMBDA e : id(e) # id(r)))

\* a resource was upserted twice into a collection that held another
\* resource of its id and one of another id
C35_Witness ==
  /\ ops[1].via = "adapter" /\ ops[1].kind = "upsert, upsert"
  /\ Len(ops[1].seen[2]) = 2
  /\ ops[1].ret # ops[1].seen
  /\ ops[1].ret = ops[1].calls[2][1]
  /\ Len(ops[1].ret[2]) = 2
  /\ \E j \in 1..2 : id(ops[1].ret[2][j]) # id(ops[1].remote[2])

\* the api functions that take the id of a resource
IdKinds == {"view", "update", "partial", "remove"}

\* C36: a resource binding whose id is the empty string behaves as one
\* whose id is undefined: its passive fetch has no key, calls nothing and
\* stores nothing, and its view, update, partial and remove reject with
\* 'id is undefined' before any remote call; the same functions of a
\* collection binding call the client with the id they were given, the
\* empty string included.
C36_EmptyIdIsNoId ==
  /\ useSWRResource(Str("")) = useSWRResource(Undefined)
  /\ \A o \in Slots :
       /\ ops[o].via = "resource" /\ ops[o].id \in {Undefined, Str("")} =>
            /\ ops[o].kind = "fetch" =>
                 ops[o].calls = <<>> /\ ops[o].writes = <<>> /\ ops[o].ret = Undefined
            /\ ops[o].kind \in IdKinds =>
                 /\ ops[o].pc = "done" /\ ops[o].err = "id is undefined"
                 /\ ops[o].calls = <<>> /\ ops[o].writes = <<>>
                 /\ ops[o].ret = Undefined
       /\ ops[o].via = "collection" /\ ops[o].kind \in IdKinds =>
            /\ ops[o].calls[1] = <<ops[o].kind, ops[o].id>>
            /\ ops[o].err # "id is undefined"

\* the update of a resource binding with the empty id has rejected, after a
\* remove of a collection binding given the empty id had written its
\* tombstone
C36_Witness ==
  \E o \in Slots :
    /\ ops[o].via = "resource" /\ ops[o].kind = "update" /\ ops[o].id = Str("")
    /\ ops[o].err = "id is undefined" /\ ops[o].calls = <<>>
    /\ cache[resourceKey(Str(""))] = Null

\* C37: a passive fetch calls the client once, list with the params of a
\* collection binding or view with the id of a resource binding.  When the
\* call resolves, the result is stored under the subscribed key, where it is
\* the data of the response, and no other entry changes: a collection fetch
\* writes no resource entry.  When it rejects nothing is stored and the
\* error of the response is the error of the client.
C37_PassiveFetch ==
  /\ [](\A o \in Slots :
          ops[o].kind = "fetch" /\ ops[o].calls # <<>> =>
            LET key == IF ops[o].via = "collection"
                       THEN collectionKey(ops[o].params)
                       ELSE resourceKey(ops[o].id)
            IN /\ ops[o].calls = IF ops[o].via = "collection"
                                 THEN << <<"list", ops[o].params>> >>
                                 ELSE << <<"view", ops[o].id>> >>
               /\ ops[o].err = "none" =>
                    /\ ops[o].writes = << <<key, ops[o].ret>> >>
                    /\ cache[key] = ops[o].ret
                    /\ ops[o].ret \in ClientResults(ops[o].calls[1][1])
               /\ ops[o].err # "none" =>
                    /\ ops[o].err = ops[o].raised /\ ops[o].err \in RemoteErrors
                    /\ ops[o].writes = <<>> /\ ops[o].ret = Undefined)
  /\ [][ops'[1].kind = "fetch" /\ ops'[1].calls # <<>> =>
          \A k \in Keys :
            cache'[k] # cache[k] =>
              /\ ops'[1].err = "none"
              /\ k = IF ops'[1].via = "collection"
                     THEN collectionKey(ops'[1].params)
                     ELSE resourceKey(ops'[1].id)]_vars

\* the fetch of a collection binding with params has stored two resources
\* under its key while the entries of the two resources are absent
C37_Witness ==
  /\ ops[1].kind = "fetch" /\ ops[1].via = "collection" /\ ops[1].err = "none"
  /\ ops[1].params = Obj("some")
  /\ Len(ops[1].ret[2]) = 2
  /\ id(ops[1].ret[2][1]) # id(ops[1].ret[2][2])
  /\ cache[collectionKey(Obj("some"))] = ops[1].ret
  /\ cache[resourceKey(Str("1"))] = Undefined
  /\ cache[resourceKey(Str("2"))] = Undefined

====
